---- MODULE Spec2Model ----
(***************************************************************************)
(* Browser workflow automation (scripts/browser, scripts/                  *)
(* browser_advanced_workflow.py): the process entry point, the workflow    *)
(* processor, the action registry, the browser session and the             *)
(* wait_response action, as state machines.                                *)
(*                                                                         *)
(* The specifications share the variables below; each one drives one       *)
(* entry point of the code and leaves the other groups at their idle       *)
(* values:                                                                 *)
(*   Spec         main() of browser_advanced_workflow.py, down into        *)
(*                WorkflowProcessor.execute                                *)
(*   SpecStep     WorkflowProcessor.execute_step(tab, idx, step) against   *)
(*                a page whose answers are nondeterministic                *)
(*   SpecSession  BrowserSession.init / aenter / aexit, called as the      *)
(*                plain methods the class defines                          *)
(*   SpecWait     the wait_response action, wait_for_response(tab, **kw)   *)
(*   SpecLogin    ChatGPTAuthHandler.wait_for_login                        *)
(*   SpecManual   AuthHandler.wait_for_manual_login                        *)
(*   SpecAuth     ZscalerAuthHandler.wait_for_auth                         *)
(*   SpecDownload the download action, download_file(tab, **kw)            *)
(*   SpecRegistry ActionRegistry.execute(name, tab, kwargs)                *)
(*   SpecExtract  ScriptExecutor._extract_value(response)                  *)
(*   SpecText     the extract action, extract_text(tab, **kw)              *)
(*   SpecLoops    the five polling loops, each run to its end (fair)       *)
(*                                                                         *)
(* Calls follow Python's call semantics: arguments are bound to the        *)
(* callee's signature as written in the source, and a call that does not   *)
(* bind raises TypeError.                                                  *)
(***************************************************************************)
EXTENDS Integers, Sequences, FiniteSets, TLC

VARIABLES
    \* ---- process entry point and WorkflowProcessor.execute (Spec)
    pc,            \* position of main()
    argWorkflow,   \* the --workflow argument
    workflow,      \* the parsed workflow handed to execute
    result,        \* execute's local `result`
    executeState,  \* "not_called" | "raised" | "returned"
    raised,        \* the exception travelling up to main, or NoExc
    stdout,        \* the JSON objects printed to standard output
    exitStatus,    \* main's return value, NoStatus until it returns
    \* ---- WorkflowProcessor.execute_step (SpecStep)
    spc,           \* position inside execute_step
    step,          \* the step dictionary
    step_result,   \* the dictionary execute_step builds and returns
    calls,         \* the operations performed for the step, in order
    stepRaised,    \* an exception that left execute_step, or NoExc
    caught,        \* the exception raised inside the step and caught, or NoExc
    current_url,   \* execute_step's local current_url
    zscaler_error, \* execute_step's local zscaler_error, Absent until the probe
    gateway_auth,  \* what wait_for_auth(tab, 300) returned to execute_step
    auth_handler,  \* execute_step's local auth_handler
    login_call,    \* the login wait execute_step called, and its timeout
    login_success, \* execute_step's local login_success
    \* ---- BrowserSession (SpecSession)
    xpc,           \* position inside aenter / aexit
    self_tab,      \* BrowserSession.tab
    self_browser,  \* BrowserSession.browser
    browserAttrs,  \* the attributes the browser object has (hasattr)
    excArg,        \* exc_val passed to aexit
    teardown,      \* the teardown operations attempted, in order
    closeFailed,   \* which of them raised
    aexitRaised,   \* an exception that left aexit, or NoExc
    aexitReturn,   \* aexit's return value once it returned
    \* ---- wait_for_response (SpecWait)
    wpc,           \* position inside wait_for_response
    elapsed,       \* time.time() - start_time, in seconds
    wait_timeout,  \* kwargs.get("wait_timeout", 60)
    seen_stop_button,
    observed,      \* what each poll observed, in order
    waitResult,    \* the dictionary wait_for_response returned
    \* ---- ChatGPTAuthHandler.wait_for_login (SpecLogin)
    lpc,           \* position inside wait_for_login
    login_elapsed, \* time.time() - start_time, in seconds
    login_timeout, \* timeout_seconds
    seen_okta,
    seen_auth_page,
    login_url,     \* current_url of the latest poll
    login_polls,   \* passes of the loop begun so far
    flagSetAt,     \* the pass at which a tracking flag was first set, 0 if none
    probe_at_call, \* what check_logged_in answered at line 91
    url_reads,     \* calls of ScriptExecutor.get_url so far
    login_slept,   \* seconds of asyncio.sleep in the latest pass, 0 if none
    loginHow,      \* the return statement taken
    loginResult,   \* the value returned, or the exception raised
    \* ---- AuthHandler.wait_for_manual_login (SpecManual)
    mpc,           \* position inside wait_for_manual_login
    manual_elapsed,\* time.time() - start_time, in seconds
    manual_timeout,\* timeout_seconds
    check_element, \* whether a check_element selector was passed
    initial_url,
    manual_obs,    \* what the latest pass saw of the page
    manualResult,  \* the value returned, or the exception raised
    \* ---- ZscalerAuthHandler.wait_for_auth (SpecAuth)
    apc,           \* position inside wait_for_auth
    auth_elapsed,  \* time.time() - start_time, in seconds
    auth_timeout,  \* timeout_seconds
    auth_obs,      \* what the latest pass saw of the page
    auth_refreshed,\* whether the latest pass called tab.refresh()
    authResult,    \* the value returned
    \* ---- download_file (SpecDownload)
    dpc,           \* position inside download_file
    locator,       \* which of link_selector / link_text the call passes
    dl_elapsed,    \* time.time() - start, in seconds
    dl_dir,        \* what the latest pass found in output_dir
    dlResult,      \* the dictionary returned
    dlRaised,      \* an exception that left download_file, or NoExc
    \* ---- ActionRegistry.execute (SpecRegistry)
    rpc,           \* "call" before the call, "done" after it
    reg_name,      \* the name passed
    reg_kwargs,    \* the keys of the dictionary passed as kwargs
    reg_out,       \* what the handler does if it runs
    regOutcome,    \* what the call did: exception, value, handlers run
    \* ---- ScriptExecutor._extract_value (SpecExtract)
    epc,           \* "call" before the call, "done" after it
    response,      \* the response passed
    extracted,     \* the string returned
    \* ---- extract_text (SpecText)
    tpc,           \* position inside extract_text
    text_kwargs,   \* the save_as and output_dir entries of kwargs
    primary,       \* what the copy-button script returned
    fallback,      \* what the direct-extraction script returned, if it ran
    written,       \* the file written: its path and its text
    textResult,    \* the dictionary returned
    textRaised     \* an exception that left extract_text, or NoExc

progVars == <<pc, argWorkflow, workflow, result, executeState, raised, stdout, exitStatus>>
stepLocals == <<zscaler_error, gateway_auth, auth_handler, login_call, login_success>>
stepVars == <<spc, step, step_result, calls, stepRaised, caught, current_url, stepLocals>>
sessVars == <<xpc, self_tab, self_browser, browserAttrs, excArg, teardown,
              closeFailed, aexitRaised, aexitReturn>>
waitVars == <<wpc, elapsed, wait_timeout, seen_stop_button, observed, waitResult>>
loginVars == <<lpc, login_elapsed, login_timeout, seen_okta, seen_auth_page, login_url,
               login_polls, flagSetAt, probe_at_call, url_reads, login_slept,
               loginHow, loginResult>>
manualVars == <<mpc, manual_elapsed, manual_timeout, check_element, initial_url,
                manual_obs, manualResult>>
authVars == <<apc, auth_elapsed, auth_timeout, auth_obs, auth_refreshed, authResult>>
dlVars == <<dpc, locator, dl_elapsed, dl_dir, dlResult, dlRaised>>
regVars == <<rpc, reg_name, reg_kwargs, reg_out, regOutcome>>
extVars == <<epc, response, extracted>>
textVars == <<tpc, text_kwargs, primary, fallback, written, textResult, textRaised>>
unitVars == <<loginVars, manualVars, authVars, dlVars, regVars, extVars, textVars>>
\* What the actions of one entry point leave alone.
othersLogin == <<progVars, stepVars, sessVars, waitVars, manualVars, authVars, dlVars, regVars,
                extVars, textVars>>
othersManual == <<progVars, stepVars, sessVars, waitVars, loginVars, authVars, dlVars, regVars,
                extVars, textVars>>
othersAuth == <<progVars, stepVars, sessVars, waitVars, loginVars, manualVars, dlVars, regVars,
                extVars, textVars>>
othersDownload == <<progVars, stepVars, sessVars, waitVars, loginVars, manualVars, authVars,
                    regVars, extVars, textVars>>
othersRegistry == <<progVars, stepVars, sessVars, waitVars, loginVars, manualVars, authVars,
                    dlVars, extVars, textVars>>
othersExtract == <<progVars, stepVars, sessVars, waitVars, loginVars, manualVars, authVars,
                   dlVars, regVars, textVars>>
othersText == <<progVars, stepVars, sessVars, waitVars, loginVars, manualVars, authVars,
                dlVars, regVars, extVars>>
vars == <<progVars, stepVars, sessVars, waitVars, unitVars>>

\* ------------------------------------------------------------- values

NoExc == "no exception"
NoStatus == 0 - 1
Absent == "<absent>"          \* dict.get(key) on a key the dict lacks
None == "None"

\* The longest workflow the process is started with.
MaxSteps == 3
\* The largest wait_timeout (seconds) wait_for_response is called with.
MaxWaitTimeout == 3
\* The largest timeout_seconds wait_for_login is called with.
MaxLoginTimeout == 7
\* The largest timeout_seconds wait_for_manual_login is called with.
MaxManualTimeout == 5
\* The largest timeout_seconds wait_for_auth is called with.
MaxAuthTimeout == 6
\* The deepest nesting of dictionaries in a response of the page controller.
MaxNesting == 3
\* download_file: max_wait = 300 (seconds)
max_wait == 300

\* ------------------------------------------------------------- steps

\* Optional parameters of a step that decide execute_step's control flow or
\* the keyword arguments of the dispatch; a declared one carries a truthy
\* value ("login_timeout": MaxLoginTimeout seconds).  "kwargs" is a parameter
\* that happens to be named kwargs.
FlagKeys == {"wait_login", "login_timeout", "target_url", "submit_button",
             "wait_for_selector", "kwargs"}

\* Values of step["type"]: the four types execute_step names, a registered
\* action it does not name, and a type nothing registers.
TypeVals == {"navigate", "input", "download", "extract", "click", "noop_future_feature"}

\* Values of step["url"], and the substrings _get_auth_handler looks for.
UrlVals == {"https://chatgpt.com/", "https://gateway.zscaler.net/",
            "https://chatgpt.com/?from=zscaler", "https://example.com/"}

UrlWords(u) ==
    CASE u = "https://chatgpt.com/" -> {"chatgpt"}
      [] u = "https://gateway.zscaler.net/" -> {"zscaler"}
      [] u = "https://chatgpt.com/?from=zscaler" -> {"chatgpt", "zscaler"}
      [] OTHER -> {}

\* A step dictionary: its "type", "url" and "name" entries (Absent when the
\* key is missing) and the set of its other declared keys.
Steps == [type : TypeVals \cup {Absent}, url : UrlVals \cup {Absent},
          name : {"Send prompt", Absent}, flags : SUBSET FlagKeys]

BareStep(t) == [type |-> t, url |-> Absent, name |-> Absent, flags |-> {}]

\* The steps of the workflows main() is started with: {"type": t} alone.
RunSteps == {BareStep(t) : t \in {"navigate", "input", "extract", "noop_future_feature"}}

RECURSIVE SeqsUpTo(_, _)
SeqsUpTo(S, n) ==
    IF n = 0 THEN {<<>>}
    ELSE LET shorter == SeqsUpTo(S, n - 1)
         IN shorter \cup {Append(s, x) : s \in {t \in shorter : Len(t) = n - 1}, x \in S}

Workflows == SeqsUpTo(RunSteps, MaxSteps)

\* The --workflow argument: text json.loads parses to a list of steps, or
\* text it cannot parse.
Malformed == [parsable |-> FALSE, steps |-> <<>>]
WorkflowArgs == {[parsable |-> TRUE, steps |-> w] : w \in Workflows} \cup {Malformed}

\* ------------------------------------------------ BrowserSession, as a class

\* The methods class BrowserSession defines (browser_session.py).
BrowserSessionMethods == {"init", "_build_options", "aenter", "aexit", "_setup_downloads"}

\* BrowserSession(headless=..., profile_dir=..., output_dir=...): a class
\* that defines no __init__ (nor __new__) takes no arguments.
BrowserSessionCall(nargs) ==
    IF "__init__" \in BrowserSessionMethods \/ nargs = 0 THEN NoExc
    ELSE "TypeError: BrowserSession() takes no arguments"

\* `async with obj`: the type must define __aenter__ and __aexit__.
AsyncWith(methods) ==
    IF {"__aenter__", "__aexit__"} \subseteq methods THEN NoExc
    ELSE "TypeError: object does not support the asynchronous context manager protocol"

\* ------------------------------------------------------- idle values

EmptyResult == [success |-> FALSE, steps |-> <<>>]
NoStepResult == [name |-> Absent, type |-> Absent, success |-> FALSE, error |-> Absent,
                 fields |-> {}]

ProgIdle ==
    /\ pc = "idle" /\ argWorkflow = Malformed /\ workflow = <<>> /\ result = EmptyResult
    /\ executeState = "not_called" /\ raised = NoExc /\ stdout = <<>>
    /\ exitStatus = NoStatus

NoLoginCall == [wait |-> Absent, timeout |-> 0]
StepLocalsUnset ==
    /\ zscaler_error = Absent /\ gateway_auth = Absent /\ auth_handler = Absent
    /\ login_call = NoLoginCall /\ login_success = Absent

StepIdle ==
    /\ spc = "idle" /\ step = BareStep(Absent) /\ step_result = NoStepResult
    /\ calls = <<>> /\ stepRaised = NoExc /\ caught = NoExc /\ current_url = Absent
    /\ StepLocalsUnset

SessIdle ==
    /\ xpc = "idle" /\ self_tab = None /\ self_browser = None /\ browserAttrs = {}
    /\ excArg = None /\ teardown = <<>> /\ closeFailed = {} /\ aexitRaised = NoExc
    /\ aexitReturn = Absent

WaitIdle ==
    /\ wpc = "idle" /\ elapsed = 0 /\ wait_timeout = 0 /\ seen_stop_button = FALSE
    /\ observed = <<>> /\ waitResult = [success |-> FALSE, error |-> Absent, fields |-> {}]

LoginIdle ==
    /\ lpc = "idle" /\ login_elapsed = 0 /\ login_timeout = 0
    /\ seen_okta = FALSE /\ seen_auth_page = FALSE /\ login_url = Absent
    /\ login_polls = 0 /\ flagSetAt = 0 /\ loginHow = Absent /\ loginResult = Absent
    /\ probe_at_call = Absent /\ url_reads = 0 /\ login_slept = 0

ManualIdle ==
    /\ mpc = "idle" /\ manual_elapsed = 0 /\ manual_timeout = 0 /\ check_element = FALSE
    /\ initial_url = Absent
    /\ manual_obs = [url |-> "<not queried>", element |-> "<not queried>",
                     text |-> "<not queried>"]
    /\ manualResult = Absent

AuthIdle ==
    /\ apc = "idle" /\ auth_elapsed = 0 /\ auth_timeout = 0
    /\ auth_obs = [marker |-> "<not queried>", text |-> "<not queried>"]
    /\ auth_refreshed = FALSE /\ authResult = Absent

DownloadIdle ==
    /\ dpc = "idle" /\ locator = Absent /\ dl_elapsed = 0
    /\ dl_dir = [marker |-> "<not queried>", excel_files |-> {}, fresh |-> {},
                 latest |-> Absent]
    /\ dlResult = [success |-> FALSE, error |-> Absent, download_path |-> Absent]
    /\ dlRaised = NoExc

RegistryIdle ==
    /\ rpc = "idle" /\ reg_name = Absent /\ reg_kwargs = {}
    /\ reg_out = [exc |-> NoExc, value |-> [success |-> TRUE, error |-> Absent, fields |-> {}]]
    /\ regOutcome = [exc |-> NoExc, value |-> [success |-> TRUE, error |-> Absent, fields |-> {}],
                     ran |-> <<>>]

ExtractIdle ==
    /\ epc = "idle" /\ extracted = Absent
    /\ response = [path |-> <<>>, leaf |-> [t |-> "NoneType", s |-> "None"]]

NoText == [s |-> "<not queried>", len |-> 0]
NoFile == [path |-> Absent, text |-> NoText]
NoTextResult == [success |-> FALSE, extracted_text |-> NoText, text_length |-> 0]
TextIdle ==
    /\ tpc = "idle" /\ text_kwargs = [save_as |-> Absent, output_dir |-> Absent]
    /\ primary = NoText /\ fallback = NoText /\ written = NoFile
    /\ textResult = NoTextResult /\ textRaised = NoExc

UnitIdle ==
    LoginIdle /\ ManualIdle /\ AuthIdle /\ DownloadIdle /\ RegistryIdle /\ ExtractIdle /\ TextIdle
IdleExceptLogin == ManualIdle /\ AuthIdle /\ DownloadIdle /\ RegistryIdle
                   /\ ExtractIdle /\ TextIdle
IdleExceptManual == LoginIdle /\ AuthIdle /\ DownloadIdle /\ RegistryIdle
                   /\ ExtractIdle /\ TextIdle
IdleExceptAuth == LoginIdle /\ ManualIdle /\ DownloadIdle /\ RegistryIdle
                   /\ ExtractIdle /\ TextIdle
IdleExceptDownload == LoginIdle /\ ManualIdle /\ AuthIdle /\ RegistryIdle /\ ExtractIdle /\ TextIdle
IdleExceptRegistry == LoginIdle /\ ManualIdle /\ AuthIdle /\ DownloadIdle /\ ExtractIdle /\ TextIdle
IdleExceptExtract == LoginIdle /\ ManualIdle /\ AuthIdle /\ DownloadIdle /\ RegistryIdle
                     /\ TextIdle
IdleExceptText == LoginIdle /\ ManualIdle /\ AuthIdle /\ DownloadIdle /\ RegistryIdle
                  /\ ExtractIdle

\* ============================================================== Spec
\* main() -> process_advanced_workflow() -> WorkflowProcessor.execute()


Init ==
    /\ pc = "parse"
    /\ argWorkflow \in WorkflowArgs
    /\ workflow = <<>> /\ result = EmptyResult
    /\ executeState = "not_called" /\ raised = NoExc /\ stdout = <<>>
    /\ exitStatus = NoStatus
    /\ StepIdle /\ SessIdle /\ WaitIdle /\ UnitIdle

\* process_advanced_workflow, line 19: json.loads(args.workflow); an
\* unparsable argument raises (json.JSONDecodeError).
ParseWorkflow ==
    /\ pc = "parse"
    /\ IF ~argWorkflow.parsable
       THEN /\ raised' = "JSONDecodeError"
            /\ pc' = "except"
            /\ UNCHANGED workflow
       ELSE /\ workflow' = argWorkflow.steps
            /\ pc' = "mkdir"
            /\ UNCHANGED raised
    /\ UNCHANGED <<argWorkflow, result, executeState, stdout, exitStatus>>
    /\ UNCHANGED <<stepVars, sessVars, waitVars, unitVars>>

\* process_advanced_workflow, lines 20-26: create the output directory (which
\* the file system may refuse) and construct the processor.
MakeOutputDir ==
    /\ pc = "mkdir"
    /\ \E ok \in BOOLEAN :
          IF ok THEN pc' = "execute" /\ UNCHANGED raised
          ELSE pc' = "except" /\ raised' = "OSError"
    /\ UNCHANGED <<argWorkflow, workflow, result, executeState, stdout, exitStatus>>
    /\ UNCHANGED <<stepVars, sessVars, waitVars, unitVars>>

\* WorkflowProcessor.execute: `result` is initialised, then the session
\* object is constructed with three keyword arguments for `async with`.
\* The constructor call raises, so the exception leaves execute before the
\* with-block (lines 39-53) and the return (line 56) are reached.
execute ==
    /\ pc = "execute"
    /\ result' = EmptyResult
    /\ LET ctor == BrowserSessionCall(3)
           enter == IF ctor # NoExc THEN ctor ELSE AsyncWith(BrowserSessionMethods)
       IN /\ enter # NoExc
          /\ raised' = enter
          /\ executeState' = "raised"
          /\ pc' = "except"
    /\ UNCHANGED <<argWorkflow, workflow, stdout, exitStatus>>
    /\ UNCHANGED <<stepVars, sessVars, waitVars, unitVars>>

\* The except branch of main returning 0.
MainExceptStatusZero ==
    /\ pc = "except"
    /\ stdout' = Append(stdout, [success |-> FALSE, error |-> raised])
    /\ exitStatus' = 0
    /\ pc' = "exit"
    /\ UNCHANGED <<argWorkflow, workflow, result, executeState, raised>>
    /\ UNCHANGED <<stepVars, sessVars, waitVars, unitVars>>

\* main, lines 42-44: except Exception -> print the error object, return 1.
MainExcept ==
    /\ pc = "except"
    /\ stdout' = Append(stdout, [success |-> FALSE, error |-> raised])
    /\ exitStatus' = 1
    /\ pc' = "exit"
    /\ UNCHANGED <<argWorkflow, workflow, result, executeState, raised>>
    /\ UNCHANGED <<stepVars, sessVars, waitVars, unitVars>>

Next == ParseWorkflow \/ MakeOutputDir \/ execute \/ MainExcept

Spec == Init /\ [][Next]_vars

\* ========================================================== SpecStep
\* WorkflowProcessor.execute_step(tab, idx, step)

\* ---- Python's binding of a call's arguments to a signature.  `params`
\* are the callee's positional-or-keyword parameters (after cls/self),
\* `varkw` says whether it ends in **kwargs, `npos` is the number of
\* positional arguments passed and `kw` the keyword names passed.
Bind(fn, params, varkw, npos, kw) ==
    IF npos > Len(params)
    THEN "TypeError: " \o fn \o "() takes fewer positional arguments than were given"
    ELSE IF \E i \in 1..npos : params[i] \in kw
    THEN "TypeError: " \o fn \o "() got multiple values for an argument"
    ELSE IF ~varkw /\ \E k \in kw : \A i \in 1..Len(params) : params[i] # k
    THEN "TypeError: " \o fn \o "() got an unexpected keyword argument"
    ELSE IF \E i \in (npos + 1)..Len(params) : params[i] \notin kw
    THEN "TypeError: " \o fn \o "() missing a required positional argument"
    ELSE NoExc

\* registry.py:20  async def execute(cls, name: str, tab, kwargs)
ExecuteParams == <<"name", "tab", "kwargs">>
ExecuteVarKw == FALSE
\* common.py:11, 80, 116, 160, 203  async def <handler>(tab, **kwargs)
HandlerParams == <<"tab">>
HandlerVarKw == TRUE

\* The names the decorators of common.py install, and the handler of each.
Handler(name) ==
    CASE name \in {"input", "type", "fill"} -> "input_text"
      [] name \in {"click", "press"} -> "click_button"
      [] name = "wait_response" -> "wait_for_response"
      [] name = "download" -> "download_file"
      [] name \in {"extract", "scrape"} -> "extract_text"
      [] OTHER -> Absent

Registered == {"input", "type", "fill", "click", "press", "wait_response",
               "download", "extract", "scrape"}

\* What a handler hands back once it runs.
Ok == [success |-> TRUE, error |-> Absent, fields |-> {}]
Failed(msg) == [success |-> FALSE, error |-> msg, fields |-> {}]
HandlerResults(h) ==
    CASE h = "input_text" -> {Ok, Failed("Input field not found")}
      [] h = "click_button" -> {Ok, Failed("Button not found")}
      [] h = "wait_for_response" -> {Ok, [success |-> FALSE, error |-> Absent, fields |-> {}]}
      [] h = "download_file" ->
            {[success |-> TRUE, error |-> Absent, fields |-> {"download_path"}],
             Failed("Download element not found"), Failed("Download timeout")}
      [] h = "extract_text" ->
            {[success |-> TRUE, error |-> Absent, fields |-> {"extracted_text", "text_length"}]}
      [] OTHER -> {Ok}

\* An outcome of a call: the exception it raised (or NoExc), the value it
\* returned, and the handlers that ran.
Raises(msg) == [exc |-> msg, value |-> Ok, ran |-> <<>>]

\* The call cls._actions[name](tab, kwargs) of registry.py:24: two
\* positional arguments for a handler declared (tab, **kwargs).
\* `out` is what the handler does once it runs: the result it returns, or
\* the exception it raises.
CallHandler(name, out) ==
    LET bound == Bind(Handler(name), HandlerParams, HandlerVarKw, 2, {})
    IN IF bound # NoExc THEN Raises(bound)
       ELSE [exc |-> out.exc, value |-> out.value, ran |-> <<Handler(name)>>]

\* execute without the test of line 22: the lookup cls._actions[name] of
\* line 24 raises KeyError on a name that is not installed.
RegistryExecuteNoLookup(name, npos, kw, out) ==
    LET bound == Bind("ActionRegistry.execute", ExecuteParams, ExecuteVarKw, npos, kw)
    IN IF bound # NoExc THEN Raises(bound)
       ELSE IF name \notin Registered THEN Raises("KeyError: " \o name)
       ELSE CallHandler(name, out)

\* ActionRegistry.execute(name, tab, **params), as execute_step calls it
\* (npos = 2), or execute(name, tab, kwargs) (npos = 3, kw = {}).
RegistryExecute(name, npos, kw, out) ==
    LET bound == Bind("ActionRegistry.execute", ExecuteParams, ExecuteVarKw, npos, kw)
    IN IF bound # NoExc THEN Raises(bound)
       ELSE IF name \notin Registered THEN Raises("ValueError: Unknown action: " \o name)
       ELSE CallHandler(name, out)

\* What a handler may do once it runs: any of its results, or raise.
RemoteError == "RemoteError: the page did not answer"
HandlerOutcomes(name) ==
    IF name \in Registered
    THEN {[exc |-> NoExc, value |-> v] : v \in HandlerResults(Handler(name))}
         \cup {[exc |-> RemoteError, value |-> Ok]}
    ELSE {[exc |-> NoExc, value |-> Ok]}

\* ---- the step dictionary
StepType(s) == IF s.type = Absent THEN "navigate" ELSE s.type
StepName(s) == IF s.name = Absent THEN "Step idx" ELSE s.name
\* action_params = {k: v for k, v in step.items() if k not in ['name', 'type']}
ActionParams(s) == s.flags \cup (IF s.url = Absent THEN {} ELSE {"url"})

\* _get_auth_handler(step.get("url", ""))
GetAuthHandler(u) ==
    LET words == IF u = Absent THEN {} ELSE UrlWords(u)
    IN IF "chatgpt" \in words \/ "openai" \in words THEN "chatgpt"
       ELSE IF "zscaler" \in words THEN "zscaler"
       ELSE "default"

\* step.get("login_timeout", 300), lines 99 and 104
login_timeout_default == 300
LoginTimeoutOf(s) ==
    IF "login_timeout" \in s.flags THEN MaxLoginTimeout ELSE login_timeout_default

\* isinstance(auth_handler, ChatGPTAuthHandler): the login wait called
LoginWait(handler) ==
    IF handler = "chatgpt" THEN "wait_for_login" ELSE "wait_for_manual_login"

\* What the waits hand back.  wait_for_auth returns True or runs off the end
\* of its loop (None) and catches every exception; wait_for_login and
\* wait_for_manual_login return True or False, and their first queries
\* (before the loop's try) may raise.
WaitForAuthOutcomes == {"True", None}
LoginWaitOutcomes == {"True", "False", RemoteError}

\* The URLs the page may report after navigation.
RedirectUrl == "https://chat.openai.com/?_sm_nck=1"
CurrentUrls == {RedirectUrl, "http://chat.openai.com/?_sm_nck=1&x=1", "https://example.com/home"}
\* "chat.openai.com/?_sm_nck=1" in current_url
IsRedirectLike(u) == u \in {RedirectUrl, "http://chat.openai.com/?_sm_nck=1&x=1"}

InitStep ==
    /\ spc = "start"
    /\ step \in Steps
    /\ step_result = NoStepResult
    /\ calls = <<>> /\ stepRaised = NoExc /\ caught = NoExc /\ current_url = Absent
    /\ StepLocalsUnset
    /\ ProgIdle /\ SessIdle /\ WaitIdle /\ UnitIdle

\* The exception leaves execute_step instead of being caught.
CatchPropagates(msg, log) ==
    /\ stepRaised' = msg
    /\ calls' = log
    /\ spc' = "raised"
    /\ UNCHANGED <<step, step_result, caught, current_url>>

\* Lines 168-172: except Exception as e -> step_result["error"] = str(e),
\* then return step_result.
CatchAtStepBoundary(msg, log) ==
    /\ step_result' = [step_result EXCEPT !.error = msg]
    /\ caught' = msg
    /\ calls' = log
    /\ spc' = "done"
    /\ UNCHANGED <<step, stepRaised, current_url>>

\* The error recorded without the `return step_result` of lines 90 and 111:
\* control falls through to the target navigation.
ReturnFailureFallsThrough(msg, log) ==
    /\ step_result' = [step_result EXCEPT !.error = msg]
    /\ calls' = log
    /\ spc' = "target"
    /\ UNCHANGED <<step, stepRaised, caught, current_url>>

\* An early `return step_result` with an error (lines 89-90, 110-111).
ReturnFailure(msg, log) ==
    /\ step_result' = [step_result EXCEPT !.error = msg]
    /\ calls' = log
    /\ spc' = "done"
    /\ UNCHANGED <<step, stepRaised, caught, current_url>>

Goto(next, log) ==
    /\ spc' = next
    /\ calls' = log
    /\ UNCHANGED <<step, step_result, stepRaised, caught, current_url>>

\* StepBegin without the test of line 68: the block of lines 69-90 is
\* entered whether or not the step declares a url.
StepBeginAlwaysNavigates ==
    /\ spc = "start"
    /\ step_result' = [name |-> StepName(step), type |-> StepType(step),
                       success |-> FALSE, error |-> Absent, fields |-> {}]
    /\ spc' = "navigate"
    /\ UNCHANGED <<step, calls, stepRaised, caught, current_url>>
    /\ UNCHANGED stepLocals
    /\ UNCHANGED <<progVars, sessVars, waitVars, unitVars>>

\* Lines 60-68: build step_result; `if step.get("url")`.
StepBegin ==
    /\ spc = "start"
    /\ step_result' = [name |-> StepName(step), type |-> StepType(step),
                       success |-> FALSE, error |-> Absent, fields |-> {}]
    /\ spc' = IF step.url # Absent THEN "navigate" ELSE "login"
    /\ UNCHANGED <<step, calls, stepRaised, caught, current_url>>
    /\ UNCHANGED stepLocals
    /\ UNCHANGED <<progVars, sessVars, waitVars, unitVars>>

\* Lines 69-73: tab.go_to(url), the settle delay, ScriptExecutor.get_url.
Navigate ==
    /\ spc = "navigate"
    /\ \/ CatchAtStepBoundary(RemoteError, Append(calls, "go_to url"))
       \/ CatchAtStepBoundary(RemoteError, calls \o <<"go_to url", "get_url">>)
       \/ \E u \in CurrentUrls :
            /\ current_url' = u
            /\ spc' = IF IsRedirectLike(u) THEN "redirect" ELSE "probe"
            /\ calls' = calls \o <<"go_to url", "get_url">>
            /\ UNCHANGED <<step, step_result, stepRaised, caught>>
    /\ UNCHANGED stepLocals
    /\ UNCHANGED <<progVars, sessVars, waitVars, unitVars>>

\* Lines 76-78 and sites/chatgpt.py:9-30: handle_zscaler_redirect submits
\* the gateway form only when the URL equals the redirect URL.
HandleRedirect ==
    /\ spc = "redirect"
    /\ IF current_url = RedirectUrl
       THEN \/ Goto("probe", calls \o <<"handle_zscaler_redirect", "submit form">>)
            \/ CatchAtStepBoundary(RemoteError, calls \o <<"handle_zscaler_redirect", "submit form">>)
       ELSE Goto("probe", Append(calls, "handle_zscaler_redirect"))
    /\ UNCHANGED stepLocals
    /\ UNCHANGED <<progVars, sessVars, waitVars, unitVars>>

\* Lines 81-87: tab.find(class_name="error-code", raise_exc=False).
ProbeGateway ==
    /\ spc = "probe"
    /\ \/ /\ Goto("gateway", Append(calls, "find error-code"))
          /\ zscaler_error' = "element"
       \/ /\ Goto("login", Append(calls, "find error-code"))
          /\ zscaler_error' = None
       \/ /\ CatchAtStepBoundary(RemoteError, Append(calls, "find error-code"))
          /\ UNCHANGED zscaler_error
    /\ UNCHANGED <<gateway_auth, auth_handler, login_call, login_success>>
    /\ UNCHANGED <<progVars, sessVars, waitVars, unitVars>>

\* The test of line 88 as `is False`: a wait that ran off its loop (None)
\* counts as passed.
GatewayWaitFailsOnFalseOnly ==
    /\ spc = "gateway"
    /\ \E r \in WaitForAuthOutcomes :
          /\ gateway_auth' = r
          /\ IF r # "False" THEN Goto("login", Append(calls, "wait_for_auth"))
             ELSE ReturnFailure("Zscaler auth failed", Append(calls, "wait_for_auth"))
    /\ UNCHANGED <<zscaler_error, auth_handler, login_call, login_success>>
    /\ UNCHANGED <<progVars, sessVars, waitVars, unitVars>>

\* Lines 88-90: if not await wait_for_auth(tab, 300): "Zscaler auth failed".
GatewayWait ==
    /\ spc = "gateway"
    /\ \E r \in WaitForAuthOutcomes :
          /\ gateway_auth' = r
          /\ IF r = "True" THEN Goto("login", Append(calls, "wait_for_auth"))
             ELSE ReturnFailure("Zscaler auth failed", Append(calls, "wait_for_auth"))
    /\ UNCHANGED <<zscaler_error, auth_handler, login_call, login_success>>
    /\ UNCHANGED <<progVars, sessVars, waitVars, unitVars>>

\* The login wait with its result ignored: no test at line 109.
LoginResultIgnored ==
    /\ spc = "login"
    /\ IF "wait_login" \in step.flags
       THEN LET wait == LoginWait(GetAuthHandler(step.url))
            IN /\ auth_handler' = GetAuthHandler(step.url)
               /\ login_call' = [wait |-> wait, timeout |-> LoginTimeoutOf(step)]
               /\ \E r \in LoginWaitOutcomes :
                    CASE r = "True" ->
                           /\ Goto("target", Append(calls, wait))
                           /\ login_success' = r
                      [] r = "False" ->
                           /\ Goto("target", Append(calls, wait))
                           /\ login_success' = r
                      [] OTHER ->
                           /\ CatchAtStepBoundary(r, Append(calls, wait))
                           /\ UNCHANGED login_success
       ELSE /\ Goto("target", calls)
            /\ UNCHANGED <<auth_handler, login_call, login_success>>
    /\ UNCHANGED <<zscaler_error, gateway_auth>>
    /\ UNCHANGED <<progVars, sessVars, waitVars, unitVars>>

\* Lines 93-111: the login wait, if the step declares wait_login.
Login ==
    /\ spc = "login"
    /\ IF "wait_login" \in step.flags
       THEN LET wait == LoginWait(GetAuthHandler(step.url))
            IN /\ auth_handler' = GetAuthHandler(step.url)
               /\ login_call' = [wait |-> wait, timeout |-> LoginTimeoutOf(step)]
               /\ \E r \in LoginWaitOutcomes :
                    CASE r = "True" ->
                           /\ Goto("target", Append(calls, wait))
                           /\ login_success' = r
                      [] r = "False" ->
                           /\ ReturnFailure("Login timeout", Append(calls, wait))
                           /\ login_success' = r
                      [] OTHER ->
                           /\ CatchAtStepBoundary(r, Append(calls, wait))
                           /\ UNCHANGED login_success
       ELSE /\ Goto("target", calls)
            /\ UNCHANGED <<auth_handler, login_call, login_success>>
    /\ UNCHANGED <<zscaler_error, gateway_auth>>
    /\ UNCHANGED <<progVars, sessVars, waitVars, unitVars>>

\* Lines 114-117: tab.go_to(target_url) and the settle delay.
NavigateTarget ==
    /\ spc = "target"
    /\ IF "target_url" \in step.flags
       THEN \/ Goto("dispatch", Append(calls, "go_to target_url"))
            \/ CatchAtStepBoundary(RemoteError, Append(calls, "go_to target_url"))
       ELSE Goto("dispatch", calls)
    /\ UNCHANGED stepLocals
    /\ UNCHANGED <<progVars, sessVars, waitVars, unitVars>>

\* The names of the calls of one ActionRegistry.execute, for the log.
Dispatched(name, r) == <<"execute " \o name>> \o r.ran

\* `return step_result` at line 172 with the dictionary `res`; `exc` is the
\* exception an inner handler swallowed on the way (line 165), or NoExc.
StepReturn(res, exc, log) ==
    /\ step_result' = res
    /\ caught' = exc
    /\ calls' = log
    /\ spc' = "done"
    /\ UNCHANGED <<step, stepRaised, current_url>>

\* step_result.update(result)
Update(sr, r) ==
    [sr EXCEPT !.success = r.success,
               !.error = IF r.error = Absent THEN sr.error ELSE r.error,
               !.fields = sr.fields \cup r.fields]

\* Lines 122-123.
DispatchNavigate ==
    /\ spc = "dispatch"
    /\ StepType(step) = "navigate"
    /\ StepReturn([step_result EXCEPT !.success = TRUE], NoExc, calls)
    /\ UNCHANGED stepLocals
    /\ UNCHANGED <<progVars, sessVars, waitVars, unitVars>>

\* result.get("error"): None when the result has no "error" key.
GetError(r) == IF r.error = Absent THEN None ELSE r.error

\* Lines 137-139: step_result["success"] = result.get("success", False);
\* if not result.get("success"): step_result["error"] = result.get("error").
InputStepResult(sr, r) ==
    [sr EXCEPT !.success = r.success,
               !.error = IF r.success THEN @ ELSE GetError(r)]

\* Lines 125-139: input, then click, then wait_response.
DispatchInput ==
    /\ spc = "dispatch"
    /\ StepType(step) = "input"
    /\ \E o1 \in HandlerOutcomes("input"), o2 \in HandlerOutcomes("click"),
          o3 \in HandlerOutcomes("wait_response") :
         LET kw == ActionParams(step)
             r1 == RegistryExecute("input", 2, kw, o1)
             log1 == calls \o Dispatched("input", r1)
             doClick == r1.exc = NoExc /\ r1.value.success /\ "submit_button" \in step.flags
             r2 == IF doClick THEN RegistryExecute("click", 2, kw, o2) ELSE r1
             log2 == IF doClick THEN log1 \o Dispatched("click", r2) ELSE log1
             doWait == r2.exc = NoExc /\ r2.value.success /\ "wait_for_selector" \in step.flags
             r3 == IF doWait THEN RegistryExecute("wait_response", 2, kw, o3) ELSE r2
             log3 == IF doWait THEN log2 \o Dispatched("wait_response", r3) ELSE log2
         IN IF r3.exc # NoExc THEN CatchAtStepBoundary(r3.exc, log3)
            ELSE StepReturn(InputStepResult(step_result, r3.value), NoExc, log3)
    /\ UNCHANGED stepLocals
    /\ UNCHANGED <<progVars, sessVars, waitVars, unitVars>>

\* Lines 141-151: download / extract, with output_dir added to the params.
DispatchDownloadExtract ==
    /\ spc = "dispatch"
    /\ StepType(step) \in {"download", "extract"}
    /\ \E o \in HandlerOutcomes(StepType(step)) :
         LET r == RegistryExecute(StepType(step), 2, ActionParams(step) \cup {"output_dir"}, o)
             log == calls \o Dispatched(StepType(step), r)
         IN IF r.exc # NoExc THEN CatchAtStepBoundary(r.exc, log)
            ELSE StepReturn(Update(step_result, r.value), NoExc, log)
    /\ UNCHANGED stepLocals
    /\ UNCHANGED <<progVars, sessVars, waitVars, unitVars>>

\* except ValueError (line 165)
IsValueError(msg) == msg = "ValueError: Unknown action: " \o StepType(step)

\* Lines 153-166: any other type; `except ValueError` -> success = True.
DispatchOther ==
    /\ spc = "dispatch"
    /\ StepType(step) \notin {"navigate", "input", "download", "extract"}
    /\ \E o \in HandlerOutcomes(StepType(step)) :
         LET r == RegistryExecute(StepType(step), 2, ActionParams(step) \cup {"output_dir"}, o)
             log == calls \o Dispatched(StepType(step), r)
         IN IF r.exc = NoExc THEN StepReturn(Update(step_result, r.value), NoExc, log)
            ELSE IF IsValueError(r.exc)
            THEN StepReturn([step_result EXCEPT !.success = TRUE], r.exc, log)
            ELSE CatchAtStepBoundary(r.exc, log)
    /\ UNCHANGED stepLocals
    /\ UNCHANGED <<progVars, sessVars, waitVars, unitVars>>

NextStep ==
    \/ StepBegin \/ Navigate \/ HandleRedirect \/ ProbeGateway \/ GatewayWait
    \/ Login \/ NavigateTarget
    \/ DispatchNavigate \/ DispatchInput \/ DispatchDownloadExtract \/ DispatchOther

SpecStep == InitStep /\ [][NextStep]_vars

\* ======================================================= SpecSession
\* BrowserSession: init, then aenter, then aexit(exc_type, exc_val, exc_tb)

\* The teardown methods the browser object may have (hasattr).
TeardownAttrs == {"close", "quit", "aexit"}

\* What closing the page or the browser may raise: subclasses of Exception.
CloseErrors == {"ConnectionError", "RuntimeError"}
ExceptionClasses == {"ConnectionError", "RuntimeError", "TypeError", "ValueError", "OSError"}

\* Line 53: a bare `except:` around tab.close().
PageCloseCatches(cls) == TRUE

\* Line 64: `except Exception as e` around the browser teardown.
BrowserCloseCatchesNarrow(cls) == cls = "ConnectionError"
BrowserCloseCatches(cls) == cls \in ExceptionClasses

\* Lines 58-63: close, else quit, else aexit, else nothing.
CloseMethodQuitFirst(attrs) ==
    IF "quit" \in attrs THEN "quit"
    ELSE IF "close" \in attrs THEN "close"
    ELSE IF "aexit" \in attrs THEN "aexit"
    ELSE Absent
CloseMethod(attrs) ==
    IF "close" \in attrs THEN "close"
    ELSE IF "quit" \in attrs THEN "quit"
    ELSE IF "aexit" \in attrs THEN "aexit"
    ELSE Absent

\* init (lines 11-16) has run: browser and tab are None.
InitSession ==
    /\ xpc = "aenter"
    /\ self_tab = None /\ self_browser = None
    /\ browserAttrs \in SUBSET TeardownAttrs
    /\ excArg = None /\ teardown = <<>> /\ closeFailed = {} /\ aexitRaised = NoExc
    /\ aexitReturn = Absent
    /\ ProgIdle /\ StepIdle /\ WaitIdle /\ UnitIdle

\* aenter (lines 39-44) with _build_options (18-37) and _setup_downloads
\* (70-86): creating the profile directory may fail, starting the browser
\* may fail, creating the download directory may fail; a failure to set the
\* download behaviour is swallowed.
aenter ==
    /\ xpc = "aenter"
    /\ \/ xpc' = "enter_raised" /\ UNCHANGED <<self_browser, self_tab>>
       \/ xpc' = "enter_raised" /\ self_browser' = "Chrome" /\ UNCHANGED self_tab
       \/ xpc' = "enter_raised" /\ self_browser' = "Chrome" /\ self_tab' = "Tab"
       \/ xpc' = "entered" /\ self_browser' = "Chrome" /\ self_tab' = "Tab"
    /\ UNCHANGED <<browserAttrs, excArg, teardown, closeFailed, aexitRaised, aexitReturn>>
    /\ UNCHANGED <<progVars, stepVars, waitVars, unitVars>>

\* aexit is called, with the exception of the body (or None).
aexitCall ==
    /\ xpc \in {"entered", "enter_raised"}
    /\ excArg' \in {None, "BodyError"}
    /\ xpc' = "aexit_page"
    /\ UNCHANGED <<self_tab, self_browser, browserAttrs, teardown, closeFailed,
                   aexitRaised, aexitReturn>>
    /\ UNCHANGED <<progVars, stepVars, waitVars, unitVars>>

\* One guarded teardown call: `op` is attempted; it succeeds, or raises an
\* error the except clause catches (then `next`), or one it does not.
TeardownCall(op, catches, next) ==
    /\ teardown' = Append(teardown, op)
    /\ \/ /\ xpc' = next
          /\ UNCHANGED <<closeFailed, aexitRaised>>
       \/ \E cls \in CloseErrors :
            /\ closeFailed' = closeFailed \cup {op}
            /\ IF catches[cls]
               THEN xpc' = next /\ UNCHANGED aexitRaised
               ELSE xpc' = "aexit_raised" /\ aexitRaised' = cls

\* Lines 50-54: if self.tab: try: await self.tab.close() / except: pass.
aexitClosePage ==
    /\ xpc = "aexit_page"
    /\ IF self_tab # None
       THEN TeardownCall("tab.close", [c \in CloseErrors |-> PageCloseCatches(c)],
                         "aexit_browser")
       ELSE xpc' = "aexit_browser" /\ UNCHANGED <<teardown, closeFailed, aexitRaised>>
    /\ UNCHANGED <<self_tab, self_browser, browserAttrs, excArg, aexitReturn>>
    /\ UNCHANGED <<progVars, stepVars, waitVars, unitVars>>

\* Lines 56-65: if self.browser: try: close / quit / aexit;
\* except Exception: print.
aexitCloseBrowser ==
    /\ xpc = "aexit_browser"
    /\ IF self_browser # None /\ CloseMethod(browserAttrs) # Absent
       THEN TeardownCall("browser." \o CloseMethod(browserAttrs),
                         [c \in CloseErrors |-> BrowserCloseCatches(c)], "aexit_grace")
       ELSE xpc' = "aexit_grace" /\ UNCHANGED <<teardown, closeFailed, aexitRaised>>
    /\ UNCHANGED <<self_tab, self_browser, browserAttrs, excArg, aexitReturn>>
    /\ UNCHANGED <<progVars, stepVars, waitVars, unitVars>>

\* Lines 67-68: await asyncio.sleep(2); the method ends, returning None.
aexitGrace ==
    /\ xpc = "aexit_grace"
    /\ teardown' = Append(teardown, "sleep 2")
    /\ aexitReturn' = None
    /\ xpc' = "exited"
    /\ UNCHANGED <<self_tab, self_browser, browserAttrs, excArg, closeFailed, aexitRaised>>
    /\ UNCHANGED <<progVars, stepVars, waitVars, unitVars>>

NextSession == aenter \/ aexitCall \/ aexitClosePage \/ aexitCloseBrowser \/ aexitGrace

SpecSession == InitSession /\ [][NextSession]_vars

\* ========================================================== SpecWait
\* wait_for_response(tab, **kwargs), common.py:115-156

\* What one evaluation of the stop-button script yields: one of the two
\* strings the script returns, another string, or an exception.
Observations == {"generating", "complete", "other", "raise"}

InitWait ==
    /\ wpc = "poll"
    /\ wait_timeout \in 0..MaxWaitTimeout
    /\ elapsed = 0 /\ seen_stop_button = FALSE /\ observed = <<>>
    /\ waitResult = [success |-> FALSE, error |-> Absent, fields |-> {}]
    /\ ProgIdle /\ StepIdle /\ SessIdle /\ UnitIdle

\* One pass of the loop body (lines 124-153): the script takes `lat`
\* seconds to answer; "generating" sleeps 1 and continues, "complete"
\* returns success (after a 2 s pause if the stop button was seen), anything
\* else, an exception included, sleeps 1.
WaitPoll ==
    /\ wpc = "poll"
    /\ elapsed < wait_timeout
    /\ \E lat \in 0..1, obs \in Observations :
         /\ observed' = Append(observed, obs)
         /\ CASE obs = "generating" ->
                   /\ seen_stop_button' = TRUE
                   /\ elapsed' = elapsed + lat + 1
                   /\ UNCHANGED <<wpc, waitResult>>
              [] obs = "complete" ->
                   /\ elapsed' = elapsed + lat + (IF seen_stop_button THEN 2 ELSE 0)
                   /\ waitResult' = [success |-> TRUE, error |-> Absent, fields |-> {}]
                   /\ wpc' = "returned"
                   /\ UNCHANGED seen_stop_button
              [] OTHER ->
                   /\ elapsed' = elapsed + lat + 1
                   /\ UNCHANGED <<wpc, waitResult, seen_stop_button>>
    /\ UNCHANGED wait_timeout
    /\ UNCHANGED <<progVars, stepVars, sessVars, unitVars>>

\* The failure return taken while the timeout has not elapsed.
WaitTimeoutEarly ==
    /\ wpc = "poll"
    /\ waitResult' = [success |-> FALSE, error |-> Absent, fields |-> {}]
    /\ wpc' = "returned"
    /\ UNCHANGED <<elapsed, wait_timeout, seen_stop_button, observed>>
    /\ UNCHANGED <<progVars, stepVars, sessVars, unitVars>>

\* Lines 155-156: the loop condition fails; return {"success": False}.
WaitTimeout ==
    /\ wpc = "poll"
    /\ elapsed >= wait_timeout
    /\ waitResult' = [success |-> FALSE, error |-> Absent, fields |-> {}]
    /\ wpc' = "returned"
    /\ UNCHANGED <<elapsed, wait_timeout, seen_stop_button, observed>>
    /\ UNCHANGED <<progVars, stepVars, sessVars, unitVars>>

NextWait == WaitPoll \/ WaitTimeout

SpecWait == InitWait /\ [][NextWait]_vars

\* ========================================================= SpecLogin
\* ChatGPTAuthHandler.wait_for_login(tab, timeout_seconds), handlers.py:87-146

\* The URLs the page may report while the user signs in.
LoginUrls == {"https://chat.openai.com/?_sm_nck=1",
              "https://uim.jp.nttdata.com/sso",
              "https://auth.openai.com/authorize",
              "https://chatgpt.com/",
              "https://chatgpt.com/auth/login",
              "https://sso.example.com/signin?continue=https://chatgpt.com/",
              "https://example.com/"}

\* `word in current_url`, for the words wait_for_login looks for.
UrlContains(u, word) ==
    CASE word = "uim.jp.nttdata.com" -> u = "https://uim.jp.nttdata.com/sso"
      [] word = "auth.openai.com" -> u = "https://auth.openai.com/authorize"
      [] word = "chatgpt.com" ->
             u \in {"https://chatgpt.com/", "https://chatgpt.com/auth/login",
                    "https://sso.example.com/signin?continue=https://chatgpt.com/"}
      [] word = "/auth" ->
             u \in {"https://auth.openai.com/authorize", "https://chatgpt.com/auth/login"}
      [] OTHER -> FALSE

\* Lines 65-85: what check_logged_in answers, or that its script raised.
ProbeOutcomes == {"logged_in", "not_logged_in", "raise"}

\* Round-trip time of the remote queries of one pass, in seconds.
Latencies == 0..1

InitLogin ==
    /\ lpc = "start"
    /\ login_timeout \in 0..MaxLoginTimeout
    /\ login_elapsed = 0 /\ seen_okta = FALSE /\ seen_auth_page = FALSE
    /\ login_url = Absent /\ login_polls = 0 /\ flagSetAt = 0
    /\ probe_at_call = Absent /\ url_reads = 0 /\ login_slept = 0
    /\ loginHow = Absent /\ loginResult = Absent
    /\ ProgIdle /\ StepIdle /\ SessIdle /\ WaitIdle /\ IdleExceptLogin

\* The function ends: `how` names the return statement, `r` the value.
LoginEnd(how, r) ==
    /\ lpc' = "returned" /\ loginHow' = how /\ loginResult' = r

\* wait_for_login with lines 91-93 and 95 exchanged: the URL is read
\* before the probe is made.
wait_for_login_url_first ==
    /\ lpc = "start"
    /\ url_reads' = 1
    /\ \/ LoginEnd("raised", RemoteError) /\ UNCHANGED probe_at_call
       \/ \E probe \in ProbeOutcomes :
            /\ probe_at_call' = probe
            /\ CASE probe = "logged_in" -> LoginEnd("already logged in", "True")
                 [] probe = "raise" -> LoginEnd("raised", RemoteError)
                 [] OTHER -> lpc' = "poll" /\ UNCHANGED <<loginHow, loginResult>>
    /\ UNCHANGED <<login_elapsed, login_timeout, seen_okta, seen_auth_page, login_url,
                   login_polls, flagSetAt, login_slept>>
    /\ UNCHANGED othersLogin

\* Lines 91-98: the probe before polling, then initial_url; both are outside
\* the loop's try, so an exception of either leaves the function.
wait_for_login ==
    /\ lpc = "start"
    /\ \E probe \in ProbeOutcomes :
         /\ probe_at_call' = probe
         /\ CASE probe = "logged_in" ->
                   LoginEnd("already logged in", "True") /\ UNCHANGED url_reads
              [] probe = "raise" ->
                   LoginEnd("raised", RemoteError) /\ UNCHANGED url_reads
              [] OTHER ->
                   /\ url_reads' = 1
                   /\ \/ LoginEnd("raised", RemoteError)
                      \/ lpc' = "poll" /\ UNCHANGED <<loginHow, loginResult>>
    /\ UNCHANGED <<login_elapsed, login_timeout, seen_okta, seen_auth_page, login_url,
                   login_polls, flagSetAt, login_slept>>
    /\ UNCHANGED othersLogin

\* The pass goes back to the loop condition after `lat` seconds of round
\* trips and `sleep` seconds of asyncio.sleep.
LoginContinue(lat, sleep, okta, authPage) ==
    /\ login_elapsed' = login_elapsed + lat + sleep
    /\ login_slept' = sleep
    /\ seen_okta' = okta /\ seen_auth_page' = authPage
    /\ flagSetAt' = IF flagSetAt = 0 /\ (okta \/ authPage) THEN login_polls + 1 ELSE flagSetAt
    /\ UNCHANGED <<lpc, loginHow, loginResult>>

\* Line 136-137: back on ChatGPT, after an auth hop was seen.
BackOnChatGPT(u, okta, authPage) ==
    UrlContains(u, "chatgpt.com") /\ ~UrlContains(u, "/auth") /\ (okta \/ authPage)

\* One pass of the loop (lines 100-144).  The last branch is the pass that
\* matches nothing: it goes back to the loop condition without a sleep, and
\* takes the time of its round trips, at least one second on this clock.
WaitForLoginPoll ==
    /\ lpc = "poll"
    /\ login_elapsed < login_timeout
    /\ login_polls' = login_polls + 1
    /\ url_reads' = url_reads + 1
    /\ \E lat \in Latencies, url \in LoginUrls \cup {"raise"}, probe \in ProbeOutcomes :
         /\ login_url' = IF url = "raise" THEN login_url ELSE url
         /\ CASE url = "raise" ->
                   LoginContinue(lat, 3, seen_okta, seen_auth_page)
              [] url = RedirectUrl ->
                   LoginContinue(lat, 5, seen_okta, seen_auth_page)
              [] url \notin {"raise", RedirectUrl} /\ UrlContains(url, "uim.jp.nttdata.com") ->
                   LoginContinue(lat, 5, TRUE, seen_auth_page)
              [] OTHER ->
                   CASE probe = "raise" ->
                          LoginContinue(lat, 3, seen_okta, seen_auth_page)
                     [] probe = "logged_in" ->
                          /\ login_elapsed' = login_elapsed + lat + 2
                          /\ login_slept' = 2
                          /\ LoginEnd("login successful", "True")
                          /\ UNCHANGED <<seen_okta, seen_auth_page, flagSetAt>>
                     [] OTHER ->
                          IF UrlContains(url, "auth.openai.com")
                          THEN LoginContinue(lat, 2, seen_okta, TRUE)
                          ELSE IF BackOnChatGPT(url, seen_okta, seen_auth_page)
                          THEN /\ login_elapsed' = login_elapsed + lat + 5
                               /\ login_slept' = 5
                               /\ LoginEnd("login complete", "True")
                               /\ UNCHANGED <<seen_okta, seen_auth_page, flagSetAt>>
                          ELSE LoginContinue(1, 0, seen_okta, seen_auth_page)
    /\ UNCHANGED <<login_timeout, probe_at_call>>
    /\ UNCHANGED othersLogin

\* Line 146: the loop condition fails; return False.
WaitForLoginTimeout ==
    /\ lpc = "poll"
    /\ login_elapsed >= login_timeout
    /\ LoginEnd("timeout", "False")
    /\ UNCHANGED <<login_elapsed, login_timeout, seen_okta, seen_auth_page, login_url,
                   login_polls, flagSetAt, probe_at_call, url_reads, login_slept>>
    /\ UNCHANGED othersLogin

NextLogin == wait_for_login \/ WaitForLoginPoll \/ WaitForLoginTimeout

SpecLogin == InitLogin /\ [][NextLogin]_vars

\* ======================================================== SpecManual
\* AuthHandler.wait_for_manual_login(tab, timeout_seconds, check_element,
\* site_name), handlers.py:11-59

\* The URLs the page may report.
ManualUrls == {"https://site.example/login", "https://site.example/Auth/callback",
               "https://site.example/home", "https://site.example/account"}

\* Lines 31-32: any(ind in current_url.lower() for ind in login_indicators)
IsLoginPage(u) == u \in {"https://site.example/login", "https://site.example/Auth/callback"}

\* Line 47-48: whether the lower-cased page text holds one of the indicators.
PageTexts == {"Welcome back", "Please sign in to continue"}
HasLoginIndicator(text) == text = "Welcome back"

\* A query that was not made in a pass.
Unqueried == "<not queried>"
NoObservation == [url |-> Unqueried, element |-> Unqueried, text |-> Unqueried]

InitManual ==
    /\ mpc = "start"
    /\ manual_timeout \in 0..MaxManualTimeout
    /\ check_element \in BOOLEAN
    /\ manual_elapsed = 0 /\ initial_url = Absent /\ manual_obs = NoObservation
    /\ manualResult = Absent
    /\ ProgIdle /\ StepIdle /\ SessIdle /\ WaitIdle /\ IdleExceptManual

\* Line 21: initial_url = await ScriptExecutor.get_url(tab), outside the
\* loop's try.
wait_for_manual_login ==
    /\ mpc = "start"
    /\ \/ \E u \in ManualUrls : initial_url' = u /\ mpc' = "poll" /\ UNCHANGED manualResult
       \/ mpc' = "raised" /\ manualResult' = RemoteError /\ UNCHANGED initial_url
    /\ UNCHANGED <<manual_elapsed, manual_timeout, check_element, manual_obs>>
    /\ UNCHANGED othersManual

\* The pass with the URL test alone: neither the check selector nor the
\* page text decides anything.
ManualPassUrlOnly(cur, el, txt) ==
    IF cur = "raise" THEN [to |-> "raise", secs |-> 2, seen |-> NoObservation]
    ELSE IF cur # initial_url /\ ~IsLoginPage(cur)
    THEN [to |-> "True", secs |-> 3, seen |-> [NoObservation EXCEPT !.url = cur]]
    ELSE [to |-> "sleep", secs |-> 2,
          seen |-> [url |-> cur, element |-> IF check_element THEN el ELSE Unqueried,
                    text |-> txt]]

\* The three tests of one pass, in the order of lines 27-51, on what the
\* page answers: "True" when a return statement is reached, "raise" when a
\* query raised (line 53), "sleep" when the pass falls through to line 56.
\* `seen` is what the pass got to see.
ManualPass(cur, el, txt) ==
    IF cur = "raise" THEN [to |-> "raise", secs |-> 2, seen |-> NoObservation]
    ELSE IF cur # initial_url /\ ~IsLoginPage(cur)
    THEN [to |-> "True", secs |-> 3, seen |-> [NoObservation EXCEPT !.url = cur]]
    ELSE IF check_element /\ el = "raise"
    THEN [to |-> "raise", secs |-> 2, seen |-> [NoObservation EXCEPT !.url = cur]]
    ELSE IF check_element /\ el = "present"
    THEN [to |-> "True", secs |-> 2,
          seen |-> [url |-> cur, element |-> el, text |-> Unqueried]]
    ELSE LET sofar == [url |-> cur, element |-> IF check_element THEN el ELSE Unqueried,
                       text |-> Unqueried]
         IN IF txt = "raise" THEN [to |-> "raise", secs |-> 2, seen |-> sofar]
            ELSE IF HasLoginIndicator(txt)
            THEN [to |-> "True", secs |-> 2, seen |-> [sofar EXCEPT !.text = txt]]
            ELSE [to |-> "sleep", secs |-> 2, seen |-> [sofar EXCEPT !.text = txt]]

\* One pass of the loop (lines 25-56).
WaitForManualLoginPoll ==
    /\ mpc = "poll"
    /\ manual_elapsed < manual_timeout
    /\ \E lat \in Latencies, cur \in ManualUrls \cup {"raise"},
          el \in {"present", "absent", "raise"}, txt \in PageTexts \cup {"raise"} :
         LET p == ManualPass(cur, el, txt)
         IN /\ manual_obs' = p.seen
            /\ manual_elapsed' = manual_elapsed + lat + p.secs
            /\ IF p.to = "True"
               THEN mpc' = "returned" /\ manualResult' = "True"
               ELSE UNCHANGED <<mpc, manualResult>>
    /\ UNCHANGED <<manual_timeout, check_element, initial_url>>
    /\ UNCHANGED othersManual

\* Lines 58-59: the loop condition fails; return False.
WaitForManualLoginTimeout ==
    /\ mpc = "poll"
    /\ manual_elapsed >= manual_timeout
    /\ mpc' = "returned" /\ manualResult' = "False"
    /\ UNCHANGED <<manual_elapsed, manual_timeout, check_element, initial_url, manual_obs>>
    /\ UNCHANGED othersManual

NextManual == wait_for_manual_login \/ WaitForManualLoginPoll \/ WaitForManualLoginTimeout

SpecManual == InitManual /\ [][NextManual]_vars

\* ========================================================== SpecAuth
\* ZscalerAuthHandler.wait_for_auth(tab, timeout_seconds), handlers.py:152-182

\* What document.body.innerText may be once the marker element is gone.
AuthTexts == {"Welcome to the portal", "Zscaler: sign in to continue",
              "Internal Server ERROR", "zscaler error 403"}
\* `"zscaler" in page_content.lower()`, `"error" in page_content.lower()`
MentionsGateway(text) == text \in {"Zscaler: sign in to continue", "zscaler error 403"}
MentionsError(text) == text \in {"Internal Server ERROR", "zscaler error 403"}

\* Line 173, with the test for "error" left out.
TextCleanGatewayOnly(text) == ~MentionsGateway(text)
\* Line 173.
TextClean(text) == ~MentionsGateway(text) /\ ~MentionsError(text)

NoAuthObservation == [marker |-> Unqueried, text |-> Unqueried]

InitAuth ==
    /\ apc = "poll"
    /\ auth_timeout \in 0..MaxAuthTimeout
    /\ auth_elapsed = 0 /\ auth_obs = NoAuthObservation /\ auth_refreshed = FALSE
    /\ authResult = Absent
    /\ ProgIdle /\ StepIdle /\ SessIdle /\ WaitIdle /\ IdleExceptAuth

\* One pass of the loop (lines 161-182): tab.find for the marker; if it is
\* absent, the URL and the page text, and `return True` on a clean text;
\* otherwise tab.refresh() and a 5 s sleep.  An exception of any of the
\* queries, or of the refresh, is caught and followed by a 5 s sleep.
WaitForAuthPoll ==
    /\ apc = "poll"
    /\ auth_elapsed < auth_timeout
    /\ \E lat \in Latencies, marker \in {"present", "absent", "raise"},
          text \in AuthTexts \cup {"raise"} :
         /\ auth_elapsed' = auth_elapsed + lat
                            + (IF marker = "absent" /\ text \in AuthTexts /\ TextClean(text)
                               THEN 0 ELSE 5)
         /\ CASE marker = "raise" ->
                   /\ auth_obs' = NoAuthObservation
                   /\ auth_refreshed' = FALSE
                   /\ UNCHANGED <<apc, authResult>>
              [] marker = "absent" /\ text = "raise" ->
                   /\ auth_obs' = [marker |-> marker, text |-> Unqueried]
                   /\ auth_refreshed' = FALSE
                   /\ UNCHANGED <<apc, authResult>>
              [] marker = "absent" /\ text # "raise" ->
                   /\ auth_obs' = [marker |-> marker, text |-> text]
                   /\ IF TextClean(text)
                      THEN /\ apc' = "returned" /\ authResult' = "True"
                           /\ auth_refreshed' = FALSE
                      ELSE /\ auth_refreshed' = TRUE
                           /\ UNCHANGED <<apc, authResult>>
              [] OTHER ->
                   /\ auth_obs' = [marker |-> marker, text |-> Unqueried]
                   /\ auth_refreshed' = TRUE
                   /\ UNCHANGED <<apc, authResult>>
    /\ UNCHANGED auth_timeout
    /\ UNCHANGED othersAuth

\* The loop condition fails and the function ends without a return
\* statement: the call yields None.
WaitForAuthTimeout ==
    /\ apc = "poll"
    /\ auth_elapsed >= auth_timeout
    /\ apc' = "returned" /\ authResult' = None
    /\ UNCHANGED <<auth_elapsed, auth_timeout, auth_obs, auth_refreshed>>
    /\ UNCHANGED othersAuth

NextAuth == WaitForAuthPoll \/ WaitForAuthTimeout

SpecAuth == InitAuth /\ [][NextAuth]_vars

\* ====================================================== SpecDownload
\* download_file(tab, **kwargs), common.py:159-199

\* The *.xlsx / *.xls files the output directory may hold.
ExcelFiles == {"report.xlsx", "prices.xls"}
\* str(latest), for a file of output_dir
PathOf(file) == "out/" \o file

NoListing == [marker |-> Unqueried, excel_files |-> {}, fresh |-> {}, latest |-> Absent]
NoDownload == [success |-> FALSE, error |-> Absent, download_path |-> Absent]

InitDownload ==
    /\ dpc = "start"
    /\ locator \in {"link_selector", "link_text", Absent}
    /\ dl_elapsed = 0 /\ dl_dir = NoListing /\ dlResult = NoDownload /\ dlRaised = NoExc
    /\ ProgIdle /\ StepIdle /\ SessIdle /\ WaitIdle /\ IdleExceptDownload

\* Lines 162-182: find the element by selector or by text, click it.
download_file ==
    /\ dpc = "start"
    /\ IF locator = Absent
       THEN /\ dlResult' = [NoDownload EXCEPT !.error = "Download element not found"]
            /\ dpc' = "returned" /\ UNCHANGED dlRaised
       ELSE \/ /\ dlResult' = [NoDownload EXCEPT !.error = "Download element not found"]
               /\ dpc' = "returned" /\ UNCHANGED dlRaised
            \/ dlRaised' = RemoteError /\ dpc' = "raised" /\ UNCHANGED dlResult
            \/ dpc' = "poll" /\ UNCHANGED <<dlResult, dlRaised>>
    /\ UNCHANGED <<locator, dl_elapsed, dl_dir>>
    /\ UNCHANGED othersDownload

\* A pass that does not look for the in-progress marker.
DownloadPassIgnoresMarker(listing) ==
    IF listing.excel_files # {} /\ listing.latest \in listing.fresh
    THEN "return" ELSE "sleep"

\* Lines 185-197: with a *.crdownload file present, sleep and continue; else
\* return the latest Excel file if it was modified less than 5 s ago.
DownloadPass(listing) ==
    IF listing.marker = "present" THEN "sleep"
    ELSE IF listing.excel_files # {} /\ listing.latest \in listing.fresh
    THEN "return" ELSE "sleep"

\* What the two globs and the stat calls of one pass may find: `fresh` are
\* the files modified less than 5 s ago, `latest` the one with the
\* greatest st_mtime, which is among the fresh ones if any is.
Listings ==
    {[marker |-> m, excel_files |-> fs, fresh |-> fr, latest |-> l] :
        m \in {"present", "absent"}, fs \in SUBSET ExcelFiles,
        fr \in SUBSET ExcelFiles, l \in ExcelFiles \cup {Absent}}
IsListing(d) ==
    /\ d.fresh \subseteq d.excel_files
    /\ IF d.excel_files = {} THEN d.latest = Absent ELSE d.latest \in d.excel_files
    /\ d.fresh # {} => d.latest \in d.fresh

\* The pass with `start = time.time()` taken anew in every pass: the
\* elapsed time the loop condition sees stays 0.
DownloadPollClockReset ==
    /\ dpc = "poll"
    /\ dl_elapsed < max_wait
    /\ \E d \in {l \in Listings : IsListing(l)} :
         /\ dl_dir' = d
         /\ IF DownloadPass(d) = "return"
            THEN /\ dlResult' = [success |-> TRUE, error |-> Absent,
                                 download_path |-> PathOf(d.latest)]
                 /\ dpc' = "returned"
            ELSE UNCHANGED <<dpc, dlResult>>
    /\ UNCHANGED <<locator, dl_elapsed, dlRaised>>
    /\ UNCHANGED othersDownload

\* One pass of the loop (lines 184-197).  stat() of a file that has gone
\* since the glob raises, and nothing in download_file catches it.
DownloadPoll ==
    /\ dpc = "poll"
    /\ dl_elapsed < max_wait
    /\ \E d \in {l \in Listings : IsListing(l)}, gone \in BOOLEAN :
         IF gone /\ d.marker = "absent" /\ d.excel_files # {}
         THEN /\ dl_dir' = [d EXCEPT !.fresh = {}, !.latest = Absent]
              /\ dlRaised' = "FileNotFoundError" /\ dpc' = "raised"
              /\ UNCHANGED <<dlResult, dl_elapsed>>
         ELSE /\ dl_dir' = d
              /\ IF DownloadPass(d) = "return"
                 THEN /\ dlResult' = [success |-> TRUE, error |-> Absent,
                                      download_path |-> PathOf(d.latest)]
                      /\ dpc' = "returned"
                      /\ UNCHANGED <<dlRaised, dl_elapsed>>
                 ELSE /\ dl_elapsed' = dl_elapsed + 1
                      /\ UNCHANGED <<dpc, dlResult, dlRaised>>
    /\ UNCHANGED locator
    /\ UNCHANGED othersDownload

\* Line 199: the loop condition fails.
DownloadTimeout ==
    /\ dpc = "poll"
    /\ dl_elapsed >= max_wait
    /\ dlResult' = [NoDownload EXCEPT !.error = "Download timeout"]
    /\ dpc' = "returned"
    /\ UNCHANGED <<locator, dl_elapsed, dl_dir, dlRaised>>
    /\ UNCHANGED othersDownload

NextDownload == download_file \/ DownloadPoll \/ DownloadTimeout

SpecDownload == InitDownload /\ [][NextDownload]_vars

\* ====================================================== SpecRegistry
\* ActionRegistry.execute(name, tab, kwargs), registry.py:19-24, called with
\* three positional arguments as it is declared

\* Names nothing registers.
UnknownNames == {"noop_future_feature", "submit"}
\* The keys of the dictionary passed as `kwargs`.
KwargsKeys == {"selector", "text", "output_dir"}

NoOutcome == [exc |-> NoExc, value |-> Ok, ran |-> <<>>]

InitRegistry ==
    /\ rpc = "call"
    /\ reg_name \in Registered \cup UnknownNames
    /\ reg_kwargs \in SUBSET KwargsKeys
    /\ reg_out \in HandlerOutcomes(reg_name)
    /\ regOutcome = NoOutcome
    /\ ProgIdle /\ StepIdle /\ SessIdle /\ WaitIdle /\ IdleExceptRegistry

\* await ActionRegistry.execute(reg_name, tab, reg_kwargs)
RegistryCall ==
    /\ rpc = "call"
    /\ regOutcome' = RegistryExecute(reg_name, 3, {}, reg_out)
    /\ rpc' = "done"
    /\ UNCHANGED <<reg_name, reg_kwargs, reg_out>>
    /\ UNCHANGED othersRegistry

NextRegistry == RegistryCall

SpecRegistry == InitRegistry /\ [][NextRegistry]_vars

\* ======================================================= SpecExtract
\* ScriptExecutor._extract_value(response), script_executor.py:13-23

\* A response of the page controller: a scalar, or dictionaries nested
\* inside one another, each with one key, around a scalar or around an
\* empty dictionary.  `path` lists the keys from the outside in, `leaf` is
\* what the innermost one holds; a scalar carries its type and the text
\* str() gives for it.
Scalars == {[t |-> "str", s |-> "hello"], [t |-> "str", s |-> ""],
            [t |-> "int", s |-> "42"], [t |-> "float", s |-> "1.5"],
            [t |-> "bool", s |-> "True"], [t |-> "NoneType", s |-> "None"]}
EmptyDict == [path |-> <<>>, leaf |-> [t |-> "dict", s |-> "{}"]]
ResponseKeys == {"result", "value"}
Responses ==
    {[path |-> p, leaf |-> l] :
        p \in SeqsUpTo(ResponseKeys, MaxNesting),
        l \in Scalars \cup {EmptyDict.leaf}}

\* isinstance(x, dict)
IsDict(x) == x.path # <<>> \/ x.leaf.t = "dict"
\* x.get(key, default), for a dictionary x
Get(x, key, default) ==
    IF x.path # <<>> /\ Head(x.path) = key
    THEN [path |-> Tail(x.path), leaf |-> x.leaf]
    ELSE default

\* repr(x) and str(x)
RECURSIVE Repr(_)
Repr(x) ==
    IF x.path = <<>>
    THEN IF x.leaf.t = "str" THEN "'" \o x.leaf.s \o "'" ELSE x.leaf.s
    ELSE "{'" \o Head(x.path) \o "': " \o Repr([path |-> Tail(x.path), leaf |-> x.leaf]) \o "}"
Str(x) == IF x.path = <<>> /\ x.leaf.t = "str" THEN x.leaf.s ELSE Repr(x)

\* _extract_value returning str(inner_result) where line 21 takes its
\* 'value' entry.
extract_value_whole_inner(resp) ==
    IF IsDict(resp)
    THEN LET res == Get(resp, "result", EmptyDict)
         IN IF IsDict(res) /\ IsDict(Get(res, "result", EmptyDict))
            THEN Str(Get(res, "result", EmptyDict))
            ELSE Str(res)
    ELSE Str(resp)

\* Lines 16-23.
extract_value(resp) ==
    IF IsDict(resp)
    THEN LET res == Get(resp, "result", EmptyDict)
         IN IF IsDict(res) /\ IsDict(Get(res, "result", EmptyDict))
            THEN Str(Get(Get(res, "result", EmptyDict), "value",
                         [path |-> <<>>, leaf |-> [t |-> "str", s |-> ""]]))
            ELSE Str(res)
    ELSE Str(resp)

InitExtract ==
    /\ epc = "call"
    /\ response \in Responses
    /\ extracted = Absent
    /\ ProgIdle /\ StepIdle /\ SessIdle /\ WaitIdle /\ IdleExceptExtract

\* ScriptExecutor._extract_value(response)
ExtractValue ==
    /\ epc = "call"
    /\ extracted' = extract_value(response)
    /\ epc' = "done"
    /\ UNCHANGED response
    /\ UNCHANGED othersExtract

NextExtract == ExtractValue

SpecExtract == InitExtract /\ [][NextExtract]_vars

\* ========================================================== SpecText
\* the extract action, extract_text(tab, **kwargs), common.py:200-292

\* A text a page script returns: what it reads and how long it is.
max_result_chars == 1000
EmptyText == [s |-> "", len |-> 0]
NoCopyButton == [s |-> "No copy button found", len |-> 20]
CopyNoText == [s |-> "Copy button clicked but could not extract text", len |-> 46]
CouldNotExtract == [s |-> "Could not extract response", len |-> 26]
MessageTexts == {[s |-> "Hello", len |-> 5],
                 [s |-> "a long answer", len |-> max_result_chars + 1]}
\* Either script returns the text of the page (any text, one that reads
\* like a failure string included), nothing, or one of its failure strings.
ScrapeOutcomes == MessageTexts \cup {EmptyText, NoCopyButton, CopyNoText, CouldNotExtract}

\* Line 241: not extracted_text or extracted_text in [...]
NeedsFallback(t) == t.len = 0 \/ t.s \in {NoCopyButton.s, CopyNoText.s}
\* Line 273: extracted_text and extracted_text not in [...]
Usable(t) == t.len > 0 /\ t.s \notin {CouldNotExtract.s, CopyNoText.s}
\* Line 290: extracted_text[:1000]
Truncate(t) ==
    IF t.len > max_result_chars
    THEN [s |-> "the first characters of " \o t.s, len |-> max_result_chars]
    ELSE t
\* Lines 204-205, 275: output_dir / save_to
SavePath(kw) ==
    (IF kw.output_dir = Absent THEN "cwd" ELSE kw.output_dir) \o "/" \o kw.save_as

InitText ==
    /\ tpc = "call"
    /\ text_kwargs \in [save_as : {Absent, "answer.txt", "run1/answer.txt"},
                        output_dir : {Absent, "out"}]
    /\ primary = NoText /\ fallback = NoText /\ written = NoFile
    /\ textResult = NoTextResult /\ textRaised = NoExc
    /\ ProgIdle /\ StepIdle /\ SessIdle /\ WaitIdle /\ IdleExceptText

\* Lines 270-292 on the final text t: save and report it, or report "".
\* Creating the directory or writing the file may raise.
TextFinish(t) ==
    IF Usable(t)
    THEN \/ /\ written' = IF text_kwargs.save_as # Absent
                          THEN [path |-> SavePath(text_kwargs), text |-> t]
                          ELSE written
            /\ textResult' = [success |-> TRUE, extracted_text |-> Truncate(t),
                              text_length |-> t.len]
            /\ tpc' = "done"
            /\ UNCHANGED textRaised
         \/ /\ text_kwargs.save_as # Absent
            /\ tpc' = "raised" /\ textRaised' = "OSError"
            /\ UNCHANGED <<written, textResult>>
    ELSE /\ textResult' = [success |-> TRUE, extracted_text |-> EmptyText, text_length |-> 0]
         /\ tpc' = "done"
         /\ UNCHANGED <<written, textRaised>>

\* Lines 209-241: the copy-button script, then the rest of the function
\* when its result is kept.
extract_text ==
    /\ tpc = "call"
    /\ \/ /\ tpc' = "raised" /\ textRaised' = RemoteError
          /\ UNCHANGED <<primary, written, textResult>>
       \/ \E t \in ScrapeOutcomes :
            /\ primary' = t
            /\ IF NeedsFallback(t)
               THEN tpc' = "fallback" /\ UNCHANGED <<written, textResult, textRaised>>
               ELSE TextFinish(t)
    /\ UNCHANGED <<text_kwargs, fallback>>
    /\ UNCHANGED othersText

\* Lines 242-268: the direct-extraction script, then the rest.
ExtractFallback ==
    /\ tpc = "fallback"
    /\ \/ /\ tpc' = "raised" /\ textRaised' = RemoteError
          /\ UNCHANGED <<fallback, written, textResult>>
       \/ \E t \in ScrapeOutcomes :
            /\ fallback' = t
            /\ TextFinish(t)
    /\ UNCHANGED <<text_kwargs, primary>>
    /\ UNCHANGED othersText

NextText == extract_text \/ ExtractFallback

SpecText == InitText /\ [][NextText]_vars

\* ========================================================= SpecLoops
\* The five polling loops, each called once and run to its end: the event
\* loop keeps running the coroutine, and every await of a pass (a sleep, a
\* query of the page, a look at the directory) comes back, with a value or
\* with an exception.

InitLoops == InitLogin \/ InitManual \/ InitAuth \/ InitWait \/ InitDownload

NextLoops == NextLogin \/ NextManual \/ NextAuth \/ NextWait \/ NextDownload

SpecLoops == InitLoops /\ [][NextLoops]_vars /\ WF_vars(NextLoops)

\* ============================================================ claims

Range(s) == {s[i] : i \in 1..Len(s)}
IsPrefix(a, b) == Len(a) <= Len(b) /\ \A i \in 1..Len(a) : a[i] = b[i]

\* main() has returned after calling WorkflowProcessor.execute.
RunEnded == pc = "exit" /\ executeState # "not_called"

\* A step {"type": t} with no other key succeeds iff t is "navigate" (or
\* absent): every other type goes through ActionRegistry.execute.
BareStepSucceeds(s) == StepType(s) = "navigate"
BareStepOutcome ==
    spc = "done" /\ step.url = Absent /\ step.flags = {}
        => (step_result.success <=> BareStepSucceeds(step))

\* The 1-based position of the first step of w that fails, 0 if none does.
FirstFailing(w) ==
    LET failing == {k \in 1..Len(w) : ~BareStepSucceeds(w[k])}
    IN IF failing = {} THEN 0 ELSE CHOOSE k \in failing : \A j \in failing : k <= j

\* C1: when a run ends, WorkflowProcessor.execute has returned a result in
\* which success is true iff every step result has success true, there are at
\* most len(workflow) step results, and if there are fewer the last one has
\* success false.
C1_ResultInvariant ==
    RunEnded =>
      /\ executeState = "returned"
      /\ result.success <=> (\A k \in 1..Len(result.steps) : result.steps[k].success)
      /\ Len(result.steps) <= Len(workflow)
      /\ Len(result.steps) < Len(workflow) =>
            /\ Len(result.steps) > 0
            /\ ~result.steps[Len(result.steps)].success

\* C2: when steps 0..i-1 of the workflow succeed and step i fails, the run's
\* result has exactly i+1 step results and success false (and nothing is
\* invoked for the steps after i).
C2_StopsAtFirstFailure ==
    RunEnded /\ FirstFailing(workflow) > 0 =>
      /\ executeState = "returned"
      /\ Len(result.steps) = FirstFailing(workflow)
      /\ ~result.success

\* The steps the run is to attempt: all of them, or those up to the first
\* that fails.
Attempted(w) == IF FirstFailing(w) = 0 THEN Len(w) ELSE FirstFailing(w)

\* C3: the steps are run in workflow order, one at a time, and each attempted
\* step appends exactly one StepResult: when the run ends there is one result
\* per attempted step, the k-th result is that of the k-th step, and the
\* steps after a failed one have none.
C3_OneResultPerAttemptedStep ==
    RunEnded =>
      /\ Len(result.steps) = Attempted(workflow)
      /\ \A k \in 1..Len(result.steps) : result.steps[k].type = StepType(workflow[k])

\* C7: a workflow run acquires the browser session and, on every exit path,
\* has released it when it ends: the page closed and the browser closed.
C7_SessionReleased ==
    RunEnded =>
      /\ "tab.close" \in Range(teardown)
      /\ \E m \in TeardownAttrs : ("browser." \o m) \in Range(teardown)

\* The step reached the dispatch of its type through the registry.
ReachedDispatch(name) == ("execute " \o name) \in Range(calls)

\* C4: a step whose type is neither navigate/input/download/extract nor a
\* registered action yields a StepResult with success true (soft success).
C4_UnknownTypeSoftSuccess ==
    /\ spc = "done"
    /\ StepType(step) \notin Registered \cup {"navigate", "input", "download", "extract"}
    /\ ReachedDispatch(StepType(step))
    => step_result.success

IsReason(e) == e \notin {Absent, None}

ExpectedBrowserOp ==
    IF self_browser = None THEN <<>>
    ELSE IF "close" \in browserAttrs THEN <<"browser.close">>
    ELSE IF "quit" \in browserAttrs THEN <<"browser.quit">>
    ELSE IF "aexit" \in browserAttrs THEN <<"browser.aexit">>
    ELSE <<>>
ExpectedTeardown ==
    (IF self_tab = None THEN <<>> ELSE <<"tab.close">>) \o ExpectedBrowserOp \o <<"sleep 2">>

\* C8: aexit closes the page, then closes the browser (close if it has it,
\* else quit, else the generic teardown method, else nothing), then waits the
\* grace delay, in this order; an error closing the page does not prevent the
\* browser close, and an error closing the browser does not prevent the
\* grace delay and the return.
C8_TeardownOrder ==
    /\ IsPrefix(teardown, ExpectedTeardown)
    /\ xpc # "aexit_raised"
    /\ xpc = "exited" => teardown = ExpectedTeardown

C8_Witness ==
    /\ xpc = "exited"
    /\ closeFailed = {"tab.close", "browser.quit"}
    /\ teardown = <<"tab.close", "browser.quit", "sleep 2">>

\* What the caller sees once the exit method is done (the protocol of a
\* context manager's exit): the exit's own exception if it raised, nothing if
\* it returned a true value, else the error of the body.
ObservedError ==
    IF aexitRaised # NoExc THEN aexitRaised
    ELSE IF aexitReturn \notin {None, Absent} THEN NoExc
    ELSE excArg

\* C9: when aexit is entered with the error of the body, the error observed
\* after teardown is that error: an error (of class Exception) raised by
\* closing the page or the browser neither replaces nor suppresses it.
C9_OriginalErrorNotMasked ==
    excArg # None /\ xpc \in {"exited", "aexit_raised"} => ObservedError = excArg

C9_Witness ==
    /\ xpc = "exited" /\ excArg = "BodyError"
    /\ closeFailed = {"tab.close", "browser.close"}
    /\ ObservedError = "BodyError"

\* The sub-actions of an input step that ran, in order.
IsSubAction(c) == c \in {"input_text", "click_button", "wait_for_response"}
SubActions == SelectSeq(calls, IsSubAction)
ExpectedSubActions ==
    <<"input_text">>
    \o (IF "submit_button" \in step.flags THEN <<"click_button">> ELSE <<>>)
    \o (IF "wait_for_selector" \in step.flags THEN <<"wait_for_response">> ELSE <<>>)

\* C10: an input step runs fill-field first, then click (if submit_button is
\* declared), then wait-for-completion (if wait_for_selector is declared),
\* stopping at the first that fails; the step succeeds iff all that ran
\* succeeded, and a failed step's error is the failed sub-action's error
\* ("Input field not found" when the field is never found).
C10_InputSubActions ==
    spc = "done" /\ StepType(step) = "input" /\ ReachedDispatch("input") =>
      /\ SubActions # <<>>
      /\ IsPrefix(SubActions, ExpectedSubActions)
      /\ step_result.success => SubActions = ExpectedSubActions
      /\ ~step_result.success =>
            step_result.error \in {"Input field not found", "Button not found",
                                   None, RemoteError}

\* The host of a URL: the domain the page is on.
UrlHost(u) ==
    CASE u = "https://chat.openai.com/?_sm_nck=1" -> "chat.openai.com"
      [] u = "https://uim.jp.nttdata.com/sso" -> "uim.jp.nttdata.com"
      [] u = "https://auth.openai.com/authorize" -> "auth.openai.com"
      [] u \in {"https://chatgpt.com/", "https://chatgpt.com/auth/login"} -> "chatgpt.com"
      [] u = "https://sso.example.com/signin?continue=https://chatgpt.com/" -> "sso.example.com"
      [] u = "https://example.com/" -> "example.com"
      [] OTHER -> Absent

\* wait_for_login returned True through the logged-in probe.
LoginViaProbe == loginHow \in {"already logged in", "login successful"}
\* A tracking flag is set, and was set at an earlier pass of this call.
HopSeenEarlier ==
    /\ seen_okta \/ seen_auth_page
    /\ flagSetAt > 0 /\ flagSetAt < login_polls

\* wait_for_login returns True only through the probe, or at a pass whose
\* URL contains "chatgpt.com" and not "/auth" after a flag was set earlier.
LoginTrueNeedsHop ==
    lpc = "returned" /\ loginResult = "True" =>
      \/ LoginViaProbe
      \/ /\ UrlContains(login_url, "chatgpt.com") /\ ~UrlContains(login_url, "/auth")
         /\ HopSeenEarlier

\* C11: wait_for_login returns True only if the logged-in probe matched
\* (before polling or at a re-check), or the current URL is on the target
\* application's domain, outside any /auth path, and one of the two tracking
\* flags was set at an earlier poll of the same call.
C11_LoginTrueOnlyViaProbeOrReturn ==
    lpc = "returned" /\ loginResult = "True" =>
      \/ LoginViaProbe
      \/ /\ UrlHost(login_url) = "chatgpt.com" /\ ~UrlContains(login_url, "/auth")
         /\ HopSeenEarlier

\* What the latest pass of wait_for_manual_login observed.
ManualUrlLeft ==
    /\ manual_obs.url # Unqueried
    /\ manual_obs.url # initial_url /\ ~IsLoginPage(manual_obs.url)
ManualElementSeen == check_element /\ manual_obs.element = "present"
ManualTextSeen == manual_obs.text \in PageTexts /\ HasLoginIndicator(manual_obs.text)
ManualReturned(r) == mpc = "returned" /\ manualResult = r

\* C12 (as stated): wait_for_manual_login returns True at the first poll at
\* which the current URL differs from the initial URL and contains no
\* login-path pattern, or the configured check selector is present; and it
\* returns False, once the timeout has elapsed, if neither was ever observed
\* (the loop goes on only after a pass that observed neither, so "never"
\* is "not at the latest pass").
C12_ManualLoginAsStated ==
    /\ ManualUrlLeft \/ ManualElementSeen => ManualReturned("True")
    /\ mpc = "returned" /\ ~(ManualUrlLeft \/ ManualElementSeen) =>
          manualResult = "False" /\ manual_elapsed >= manual_timeout

\* C12 (amended): once polling has begun, wait_for_manual_login returns True
\* at the first poll at which the URL differs from the initial URL and
\* contains no login-path pattern, or the configured check selector is
\* present, or the page text contains a post-login keyword; it returns False,
\* once the timeout has elapsed, if none of the three was ever observed.
C12_ManualLogin ==
    /\ ManualUrlLeft \/ ManualElementSeen \/ ManualTextSeen => ManualReturned("True")
    /\ mpc = "returned" /\ ~(ManualUrlLeft \/ ManualElementSeen \/ ManualTextSeen) =>
          manualResult = "False" /\ manual_elapsed >= manual_timeout

C12_Witness ==
    /\ ManualReturned("True") /\ ManualElementSeen /\ ~ManualUrlLeft
    /\ manual_elapsed >= 4

\* C13: wait_for_auth returns True only at a poll where the error marker
\* element is absent and the page text contains neither "error" nor the
\* gateway's name, in any letter case; a poll where the marker is present
\* refreshes the page and goes on to the next poll instead of returning.
C13_AuthSuccessOnlyOnCleanPage ==
    /\ apc = "returned" /\ authResult = "True" =>
          /\ auth_obs.marker = "absent"
          /\ auth_obs.text \in AuthTexts
          /\ ~MentionsError(auth_obs.text) /\ ~MentionsGateway(auth_obs.text)
    /\ auth_obs.marker = "present" => auth_refreshed /\ authResult # "True"

C13_Witness ==
    /\ apc = "returned" /\ authResult = "True"
    /\ auth_obs = [marker |-> "absent", text |-> "Welcome to the portal"]
    /\ auth_elapsed >= 5

\* C15: wait_for_response returns success at the first poll that observes
\* idle ("complete"), whether or not busy ("generating") was observed before
\* it; it never returns success at a poll that observes busy; and it returns
\* failure only when the timeout has elapsed without idle being observed.
C15_WaitResponse ==
    /\ "complete" \in Range(observed) =>
          /\ wpc = "returned" /\ waitResult.success
          /\ \A i \in 1..Len(observed) : observed[i] = "complete" <=> i = Len(observed)
    /\ wpc = "returned" /\ waitResult.success =>
          observed # <<>> /\ observed[Len(observed)] = "complete"
    /\ wpc = "returned" /\ ~waitResult.success =>
          elapsed >= wait_timeout /\ "complete" \notin Range(observed)

C15_Witness ==
    /\ wpc = "returned" /\ waitResult.success
    /\ observed = <<"generating", "complete">>

\* download_file has clicked the element and looked at the directory.
DownloadPolled == dl_dir # NoListing

\* C16: after the click, download_file never returns success at a poll
\* where a *.crdownload file exists; it returns success, with the path of the
\* freshly modified file, at a poll where no marker remains and a freshly
\* modified *.xlsx / *.xls file exists; and with the marker still there when
\* the timeout elapses it returns failure with error "Download timeout".
C16_DownloadWait ==
    /\ dpc = "returned" /\ dlResult.success =>
          /\ dl_dir.marker = "absent"
          /\ \E f \in dl_dir.fresh : dlResult.download_path = PathOf(f)
    /\ dl_dir.marker = "absent" /\ dl_dir.fresh # {} =>
          dpc = "returned" /\ dlResult.success
    /\ dpc = "returned" /\ DownloadPolled /\ ~dlResult.success =>
          dlResult.error = "Download timeout" /\ dl_elapsed >= max_wait
    /\ dpc = "returned" /\ dl_dir.marker = "present" =>
          ~dlResult.success /\ dlResult.error = "Download timeout"

C16_Witness ==
    /\ dpc = "returned" /\ dlResult.success
    /\ dlResult.download_path = "out/report.xlsx"
    /\ dl_dir.excel_files = ExcelFiles /\ dl_dir.fresh = {"report.xlsx"}
    /\ dl_elapsed >= 2

\* No polling loop is still running.
LoopsEnded ==
    /\ lpc \notin {"start", "poll"} /\ mpc \notin {"start", "poll"}
    /\ apc # "poll" /\ wpc # "poll" /\ dpc \notin {"start", "poll"}

\* A pass of a loop begins only while the loop's timeout has not elapsed.
PassWithinTimeout ==
    /\ login_polls' # login_polls => login_elapsed < login_timeout
    /\ manual_obs' # manual_obs \/ manual_elapsed' # manual_elapsed =>
          manual_elapsed < manual_timeout
    /\ auth_obs' # auth_obs \/ auth_elapsed' # auth_elapsed => auth_elapsed < auth_timeout
    /\ observed' # observed => elapsed < wait_timeout
    /\ dl_dir' # dl_dir \/ dl_elapsed' # dl_elapsed => dl_elapsed < max_wait

\* C14: every polling loop (wait_for_manual_login, wait_for_login,
\* wait_for_auth, wait_for_response, the download wait) terminates whatever
\* the page answers: the call eventually ends, and no pass begins once the
\* timeout has elapsed.
C14_PollLoopsTerminate == <>LoopsEnded /\ [][PassWithinTimeout]_vars

C14_Witness ==
    /\ lpc = "returned" /\ loginResult = "False"
    /\ login_polls >= 3 /\ login_elapsed >= login_timeout

\* C17: ActionRegistry.execute on a name that is not installed fails with
\* ValueError, the message naming the requested name, and runs no handler.
C17_UnknownActionRaises ==
    rpc = "done" /\ reg_name \notin Registered =>
      /\ regOutcome.exc = "ValueError: Unknown action: " \o reg_name
      /\ regOutcome.ran = <<>>

C17_Witness ==
    /\ rpc = "done" /\ reg_name = "noop_future_feature"
    /\ regOutcome.exc = "ValueError: Unknown action: noop_future_feature"

\* C18: called with the primary name or with any alias of a handler,
\* ActionRegistry.execute runs that handler, with the arguments of the call,
\* and hands back what the handler returns (or raises): the same for every
\* name of the handler.
C18_AliasesRunTheSameHandler ==
    rpc = "done" /\ reg_name \in Registered =>
      regOutcome = [exc |-> reg_out.exc, value |-> reg_out.value,
                    ran |-> <<Handler(reg_name)>>]

\* The three shapes of a response that carries the scalar v.
PlainShape(v) == [path |-> <<>>, leaf |-> v]
SingleShape(v) == [path |-> <<"result">>, leaf |-> v]
DoubleShape(v) == [path |-> <<"result", "result", "value">>, leaf |-> v]

\* C19: _extract_value turns the three response shapes, a plain scalar v,
\* {result: v} and {result: {result: {value: v}}}, into the same string,
\* str(v), for every scalar v.
C19_ThreeShapesOneString ==
    epc = "done" =>
      \A v \in Scalars :
        response \in {PlainShape(v), SingleShape(v), DoubleShape(v)} =>
          extracted = Str(PlainShape(v))

C19_Witness ==
    /\ epc = "done"
    /\ response = DoubleShape([t |-> "bool", s |-> "True"])
    /\ extracted = "True"

\* C20: main returns exit status 0 iff WorkflowProcessor.execute returned
\* an aggregate result whose success is true, and 1 in every other case, the
\* unparsable workflow argument and an exception during setup included; and
\* exactly one JSON object has been written to standard output when it
\* returns, none before.
C20_ExitStatus ==
    /\ pc = "exit" =>
          /\ exitStatus = 0 <=> (executeState = "returned" /\ result.success)
          /\ exitStatus = 1 <=> ~(executeState = "returned" /\ result.success)
          /\ Len(stdout) = 1
    /\ pc # "exit" => stdout = <<>> /\ exitStatus = NoStatus

C20_Witness ==
    /\ pc = "exit" /\ ~argWorkflow.parsable
    /\ exitStatus = 1
    /\ stdout = <<[success |-> FALSE, error |-> "JSONDecodeError"]>>

\* x has the key `key` (x a dictionary), and the value it holds there.
HasKey(x, key) == x.path # <<>> /\ Head(x.path) = key
ValueAt(x) == [path |-> Tail(x.path), leaf |-> x.leaf]
\* response["result"]["result"]["value"] exists.
ValuePathPresent(x) ==
    /\ HasKey(x, "result")
    /\ HasKey(ValueAt(x), "result")
    /\ HasKey(ValueAt(ValueAt(x)), "value")

\* The fallback chain: str(response) for a response that is no mapping;
\* str of result.result.value where that path exists; else str(result)
\* where the mapping has a result key; else str(response).
FallbackChain(x) ==
    IF ~IsDict(x) THEN Str(x)
    ELSE IF ValuePathPresent(x) THEN Str(ValueAt(ValueAt(ValueAt(x))))
    ELSE IF HasKey(x, "result") THEN Str(ValueAt(x))
    ELSE Str(x)

\* C25: for every response, _extract_value returns what the fallback chain
\* gives: a non-mapping stringified, result.result.value as a string when
\* present, else the stringified result, else the stringified response.
C25_FallbackChain ==
    epc = "done" => extracted = FallbackChain(response)

\* C30: a run of the empty workflow ends with execute having returned
\* success true and no step results, exit status 0, and the session
\* acquired and released (page closed) exactly once.
C30_EmptyWorkflowSucceeds ==
    RunEnded /\ argWorkflow.parsable /\ workflow = <<>> =>
      /\ executeState = "returned"
      /\ result.success /\ result.steps = <<>>
      /\ exitStatus = 0
      /\ Cardinality({i \in 1..Len(teardown) : teardown[i] = "tab.close"}) = 1

\* The phase of execute_step an operation of the log belongs to: 1 navigate
\* to url, 2 gateway check, 3 login wait, 4 navigate to target_url,
\* 5 dispatch by type.
Phase(op) ==
    CASE op \in {"go_to url", "get_url", "handle_zscaler_redirect", "submit form"} -> 1
      [] op \in {"find error-code", "wait_for_auth"} -> 2
      [] op \in {"wait_for_login", "wait_for_manual_login"} -> 3
      [] op = "go_to target_url" -> 4
      [] OTHER -> 5
PhaseRan(n) == \E i \in 1..Len(calls) : Phase(calls[i]) = n

\* The step has gone past its waits: it is at, or has performed, the target
\* navigation or the dispatch of its type.
PastWaits ==
    \/ spc \in {"target", "dispatch"}
    \/ PhaseRan(4) \/ PhaseRan(5)
    \/ step_result.success

\* The step has failed: an error is recorded in its result.
StepFailed == step_result.error # Absent

PhasesInOrder ==
    /\ \A i, j \in 1..Len(calls) : i < j => Phase(calls[i]) <= Phase(calls[j])
    /\ PhaseRan(1) \/ PhaseRan(2) => step.url # Absent
    /\ PhaseRan(3) => "wait_login" \in step.flags
    /\ PhaseRan(4) => "target_url" \in step.flags
    /\ PastWaits =>
          /\ zscaler_error = "element" => gateway_auth = "True"
          /\ "wait_login" \in step.flags => login_success = "True"
    /\ StepFailed => spc = "done"

\* C21: the operations of a step occur in the order navigate, gateway
\* check, login wait, target navigation, dispatch, each only if the step
\* declares it; the target navigation and the dispatch happen only after
\* the gateway wait (when the marker was present) and the login wait (when
\* declared) returned success; and once the step has failed or is done
\* nothing more is performed for it.
C21_PhaseOrder ==
    /\ []PhasesInOrder
    /\ [][spc = "done" => spc' = "done" /\ calls' = calls /\ step_result' = step_result]_vars

C21_Witness ==
    /\ spc = "done"
    /\ step.url # Absent /\ zscaler_error = "element" /\ gateway_auth = "True"
    /\ login_success = "True"
    /\ "go_to target_url" \in Range(calls)
    /\ PhaseRan(5)

\* C22: when the gateway marker was found and wait_for_auth returned
\* anything but True (None, when its loop ran out), the step has ended
\* with success false and error "Zscaler auth failed", without a login
\* wait, a target navigation or a dispatch; success false is what stops
\* the run (processor.py:47-48).
C22_GatewayAuthFailed ==
    zscaler_error = "element" /\ gateway_auth \notin {Absent, "True"} =>
      /\ spc = "done" /\ stepRaised = NoExc
      /\ ~step_result.success
      /\ step_result.error = "Zscaler auth failed"
      /\ ~PhaseRan(3) /\ ~PhaseRan(4) /\ ~PhaseRan(5)
      /\ login_call = NoLoginCall

C22_Witness ==
    /\ spc = "done" /\ zscaler_error = "element" /\ gateway_auth = None
    /\ "wait_login" \in step.flags /\ StepType(step) = "input"
    /\ step_result.error = "Zscaler auth failed"
    /\ calls[Len(calls)] = "wait_for_auth"

\* C23: when the step declares wait_login and the login wait returned
\* False, the step has ended with success false and error "Login timeout",
\* without a target navigation or a dispatch; success false is what stops
\* the run (processor.py:47-48).
C23_LoginTimeout ==
    "wait_login" \in step.flags /\ login_success = "False" =>
      /\ spc = "done" /\ stepRaised = NoExc
      /\ ~step_result.success
      /\ step_result.error = "Login timeout"
      /\ ~PhaseRan(4) /\ ~PhaseRan(5)

C23_Witness ==
    /\ spc = "done" /\ login_success = "False"
    /\ "target_url" \in step.flags /\ StepType(step) = "download"
    /\ step_result.error = "Login timeout"
    /\ calls[Len(calls)] \in {"wait_for_login", "wait_for_manual_login"}

\* The variant a url selects, the target-site keywords tried first, and the
\* wait operation each variant owns.
VariantOf(u) ==
    IF u # Absent /\ UrlWords(u) \cap {"chatgpt", "openai"} # {} THEN "chatgpt"
    ELSE IF u # Absent /\ "zscaler" \in UrlWords(u) THEN "zscaler"
    ELSE "default"
OwnWait(variant) ==
    CASE variant = "chatgpt" -> "wait_for_login"
      [] variant = "zscaler" -> "wait_for_auth"
      [] OTHER -> "wait_for_manual_login"

\* C24: for a step that declares wait_login, the handler selected is the
\* variant its url gives (target site first, then gateway, else generic,
\* also without a url), and the wait called is that variant's own
\* operation, with the step's login_timeout, 300 when it declares none.
C24_HandlerAndWaitByUrl ==
    login_call # NoLoginCall =>
      /\ auth_handler = VariantOf(step.url)
      /\ login_call.wait = OwnWait(auth_handler)
      /\ login_call.timeout =
            IF "login_timeout" \in step.flags THEN MaxLoginTimeout ELSE login_timeout_default

\* C26: in wait_for_login every pass of the loop that does not return
\* sleeps (2 to 5 seconds) before the URL is read again: no pass goes back
\* to the loop condition without a sleep.
C26_EveryPassSleeps ==
    [][login_polls' = login_polls + 1 /\ lpc' = "poll" => login_slept' >= 2]_vars

\* The probe made when wait_for_login is called matched.
ProbeMatchedAtCall == probe_at_call = "logged_in"

\* C27: when the logged-in probe matches as wait_for_login is called, the
\* call has returned True with no URL read and no pass of the loop; it
\* returns that way in no other case.
C27_ImmediateSuccess ==
    /\ ProbeMatchedAtCall =>
          /\ lpc = "returned" /\ loginResult = "True" /\ loginHow = "already logged in"
          /\ url_reads = 0 /\ login_polls = 0 /\ login_elapsed = 0
    /\ loginHow = "already logged in" => ProbeMatchedAtCall

C27_Witness ==
    /\ lpc = "returned" /\ ProbeMatchedAtCall /\ loginResult = "True"
    /\ login_timeout = 0 /\ url_reads = 0

\* C28: an evaluation error of a query of wait_for_manual_login (URL read,
\* selector check, page-text read) never leaves the call: the call does
\* not end by an exception, whichever query the error came from.
C28_ManualErrorsSwallowed ==
    mpc # "raised" /\ manualResult # RemoteError

\* The failure strings of the two scripts, and the text extract_text ends
\* with: the fallback's when it ran, else the primary's.
Sentinels == {NoCopyButton.s, CopyNoText.s, CouldNotExtract.s}
IsEmptyOrSentinel(t) == t.len = 0 \/ t.s \in Sentinels
FinalText == IF fallback # NoText THEN fallback ELSE primary

\* C29: extract_text returns success true whatever the two scrapes return;
\* the fallback scrape runs iff the primary result is empty or a sentinel;
\* and a final text that is empty or a sentinel gives extracted_text "",
\* text_length 0 and no file.
C29_ExtractNeverFails ==
    /\ tpc = "done" => textResult.success
    /\ tpc \in {"fallback", "done"} =>
          ((tpc = "fallback" \/ fallback # NoText) <=> IsEmptyOrSentinel(primary))
    /\ tpc = "done" /\ IsEmptyOrSentinel(FinalText) =>
          /\ textResult.extracted_text = EmptyText
          /\ textResult.text_length = 0
          /\ written = NoFile

\* The operations of the block of lines 68-90 left no trace: no navigation
\* to url, no URL read, no redirect handling, no probe for the gateway
\* marker, no gateway wait, and no "Zscaler auth failed".
NoGatewayCheck ==
    /\ ~PhaseRan(1) /\ ~PhaseRan(2)
    /\ current_url = Absent /\ zscaler_error = Absent /\ gateway_auth = Absent
    /\ step_result.error # "Zscaler auth failed"

\* C31 (as stated): a step that declares no url performs no navigation at
\* all, no URL read, no redirect handling and no probe for the gateway
\* marker, so no gateway check.
C31_NoUrlNoNavigationAsStated ==
    step.url = Absent =>
      /\ NoGatewayCheck
      /\ "go_to target_url" \notin Range(calls)

\* C31 (amended): a step that declares no url performs no navigation to
\* url, no URL read of its own, no redirect handling and no probe for the
\* gateway marker: the gateway check and "Zscaler auth failed" occur only
\* in a step that declares a url.  The step may still navigate to its
\* target_url.
C31_NoUrlNoGatewayCheck ==
    step.url = Absent => NoGatewayCheck

C31_Witness ==
    /\ spc = "done" /\ step.url = Absent
    /\ "wait_login" \in step.flags /\ login_success = "True"
    /\ "go_to target_url" \in Range(calls)
    /\ NoGatewayCheck


====
